---- MODULE Spec2Model ----
(***************************************************************************)
(* Model of the blind_charging redaction engine.                           *)
(*                                                                         *)
(*   Spec            BrokenRange (broken_range.py): addspan / contains /   *)
(*                   overlaps over a flat boundary list.                   *)
(*   SpecSourceText  SourceText (source_text.py): redact / can_redact over *)
(*                   a text view and a BrokenRange of cleared offsets.     *)
(*   SpecPipeline    mask_person (masker.py) over a SourceText, for a      *)
(*                   person known by an indicator only.                    *)
(*                                                                         *)
(* Python lists and strings are 0-indexed; they are modelled as TLA+       *)
(* sequences and read through At / Slice, which keep the 0-based offsets   *)
(* of the source.                                                          *)
(***************************************************************************)
EXTENDS Integers, Sequences, FiniteSets, TLC

VARIABLES
    brRange,     \* BrokenRange._range of the stand-alone tracker
    brCovered,   \* history: every integer of every span addspan accepted
    brCall,      \* the last call made on the tracker and its outcome
    text,        \* SourceText.nlp.text: the original narrative
    view,        \* SourceText.text: the redacted-so-far view
    cleared,     \* SourceText.cleared._range
    returned,    \* history: spans of the Redactions returned so far
    onlyDefault, \* history: every redact call so far used the default options
    stCall,      \* the last call made on the SourceText and its outcome
    ncalls,      \* number of redact calls made so far
    nlp,         \* SourceText.nlp: what the NLP pipeline says of the text
    pipe,        \* mask_person: detector position, matches left, error raised
    ann,         \* merge_annotations: position, lists and current redaction
    dd           \* dedupe: position, mentions, persons and error raised

brVars == <<brRange, brCovered, brCall>>
stVars == <<text, view, cleared, returned, onlyDefault, stCall, ncalls,
            nlp, pipe, ann, dd>>
idVars == <<ann, dd>>
vars == <<brRange, brCovered, brCall, text, view, cleared, returned,
          onlyDefault, stCall, ncalls, nlp, pipe, ann, dd>>

----------------------------------------------------------------------------
(* Bounds *)

\* Span boundaries and probes of the stand-alone tracker range over
\* MinPoint..MaxPoint.
MaxPoint == 5

MinPoint == 0 - 1

\* Narratives given to a SourceText have 1..MaxTextLen characters.
MaxTextLen == 3

\* At most MaxCalls redact calls are made on one SourceText.
MaxCalls == 2

\* Narratives given to the rule pipeline have 1..MaxNarrativeLen characters.
MaxNarrativeLen == 6

Points == MinPoint..MaxPoint

----------------------------------------------------------------------------
(* Python sequence helpers *)

\* seq[i] for a 0-based index i
At(seq, i) == seq[i + 1]

\* seq[lo:hi] for 0-based lo, hi; Python clips the bounds to 0..len and
\* yields the empty sequence when hi <= lo.
Slice(seq, lo, hi) ==
    LET l == IF lo < 0 THEN 0 ELSE IF lo > Len(seq) THEN Len(seq) ELSE lo
        h == IF hi < 0 THEN 0 ELSE IF hi > Len(seq) THEN Len(seq) ELSE hi
    IN  IF h <= l THEN << >> ELSE SubSeq(seq, l + 1, h)

Min(a, b) == IF a <= b THEN a ELSE b

Max(a, b) == IF a >= b THEN a ELSE b

----------------------------------------------------------------------------
(* broken_range.py *)

\* The binary search loop of _find_index: narrows [low, high) until it is
\* one wide and returns the pair <<low, high>>.
RECURSIVE find_loop(_, _, _, _)
find_loop(R, value, low, high) ==
    IF (high - low) > 1
    THEN LET mid == low + ((high - low) \div 2)
         IN  IF value < At(R, mid)
             THEN find_loop(R, value, low, mid)
             ELSE find_loop(R, value, mid, high)
    ELSE <<low, high>>

find_index(R, value, inside) ==
    IF R = << >> THEN 0
    ELSE LET lh   == find_loop(R, value, 0, Len(R))
             low  == lh[1]
             high == lh[2]
             idx  == IF value <= At(R, low) THEN low ELSE high
         IN  IF idx = Len(R) THEN idx
             ELSE IF inside /\ At(R, idx) = value THEN idx + 1
             ELSE idx

\* Mutant of addspan: the end of the block is searched at `end` instead of
\* `end + 1`, so a span that only touches the next block is not merged.
addspan_no_touch(R, start, end) ==
    IF end <= start THEN [raised |-> "ValueError", range |-> R]
    ELSE
    LET s0 == find_index(R, start, FALSE)
        start_idx == IF s0 % 2 = 1 THEN s0 - 1 ELSE s0
    IN  IF start_idx = Len(R)
        THEN [raised |-> "none", range |-> R \o <<start, end>>]
        ELSE
        LET e0 == find_index(R, end, FALSE)
            end_idx == IF e0 % 2 = 0 THEN e0 - 1 ELSE e0
        IN  IF end_idx < 0
            THEN [raised |-> "none", range |-> <<start, end>> \o R]
            ELSE
            LET block_start == Min(start, At(R, start_idx))
                block_end   == Max(end, At(R, end_idx))
            IN  [raised |-> "none",
                 range  |-> Slice(R, 0, start_idx)
                            \o <<block_start, block_end>>
                            \o Slice(R, end_idx + 1, Len(R))]

\* Mutant of addspan: the extent check lets an empty span (end = start)
\* through.
addspan_empty_ok(R, start, end) ==
    IF end < start THEN [raised |-> "ValueError", range |-> R]
    ELSE
    LET s0 == find_index(R, start, FALSE)
        start_idx == IF s0 % 2 = 1 THEN s0 - 1 ELSE s0
    IN  IF start_idx = Len(R)
        THEN [raised |-> "none", range |-> R \o <<start, end>>]
        ELSE
        LET e0 == find_index(R, end + 1, FALSE)
            end_idx == IF e0 % 2 = 0 THEN e0 - 1 ELSE e0
        IN  IF end_idx < 0
            THEN [raised |-> "none", range |-> <<start, end>> \o R]
            ELSE
            LET block_start == Min(start, At(R, start_idx))
                block_end   == Max(end, At(R, end_idx))
            IN  [raised |-> "none",
                 range  |-> Slice(R, 0, start_idx)
                            \o <<block_start, block_end>>
                            \o Slice(R, end_idx + 1, Len(R))]

\* Mutant of addspan: the merged block always ends at `end`, dropping the
\* tail of a stored block that reaches further.
addspan_short_block(R, start, end) ==
    IF end <= start THEN [raised |-> "ValueError", range |-> R]
    ELSE
    LET s0 == find_index(R, start, FALSE)
        start_idx == IF s0 % 2 = 1 THEN s0 - 1 ELSE s0
    IN  IF start_idx = Len(R)
        THEN [raised |-> "none", range |-> R \o <<start, end>>]
        ELSE
        LET e0 == find_index(R, end + 1, FALSE)
            end_idx == IF e0 % 2 = 0 THEN e0 - 1 ELSE e0
        IN  IF end_idx < 0
            THEN [raised |-> "none", range |-> <<start, end>> \o R]
            ELSE
            LET block_start == Min(start, At(R, start_idx))
                block_end   == end
            IN  [raised |-> "none",
                 range  |-> Slice(R, 0, start_idx)
                            \o <<block_start, block_end>>
                            \o Slice(R, end_idx + 1, Len(R))]

\* BrokenRange.addspan: the outcome of the call (the error raised, if any)
\* and the boundary list it leaves in self._range.
addspan(R, start, end) ==
    IF end <= start THEN [raised |-> "ValueError", range |-> R]
    ELSE
    LET s0 == find_index(R, start, FALSE)
        start_idx == IF s0 % 2 = 1 THEN s0 - 1 ELSE s0
    IN  IF start_idx = Len(R)
        THEN [raised |-> "none", range |-> R \o <<start, end>>]
        ELSE
        LET e0 == find_index(R, end + 1, FALSE)
            end_idx == IF e0 % 2 = 0 THEN e0 - 1 ELSE e0
        IN  IF end_idx < 0
            THEN [raised |-> "none", range |-> <<start, end>> \o R]
            ELSE
            LET block_start == Min(start, At(R, start_idx))
                block_end   == Max(end, At(R, end_idx))
            IN  [raised |-> "none",
                 range  |-> Slice(R, 0, start_idx)
                            \o <<block_start, block_end>>
                            \o Slice(R, end_idx + 1, Len(R))]

\* Mutant of contains: an odd index always counts as inside, so the
\* exclusive end of a block is reported as contained.
contains_end_inclusive(R, value) ==
    LET idx == find_index(R, value, FALSE)
    IN  IF idx = Len(R) THEN FALSE
        ELSE IF idx % 2 = 0 THEN value = At(R, idx)
        ELSE TRUE

\* BrokenRange.contains
contains(R, value) ==
    LET idx == find_index(R, value, FALSE)
    IN  IF idx = Len(R) THEN FALSE
        ELSE IF idx % 2 = 0 THEN value = At(R, idx)
        ELSE value # At(R, idx)

\* Mutant of overlaps: the start is searched without `inside`, so a probe
\* starting at the exclusive end of a block counts as starting inside it.
overlaps_start_outside(R, start, end) ==
    IF end <= start THEN [raised |-> "ValueError", result |-> FALSE]
    ELSE
    LET start_idx == find_index(R, start, FALSE)
        end_idx   == find_index(R, end, FALSE)
    IN  IF start_idx % 2 = 1 THEN [raised |-> "none", result |-> TRUE]
        ELSE [raised |-> "none", result |-> (start_idx # end_idx)]

\* BrokenRange.overlaps: the error raised, if any, and the value returned.
overlaps(R, start, end) ==
    IF end <= start THEN [raised |-> "ValueError", result |-> FALSE]
    ELSE
    LET start_idx == find_index(R, start, TRUE)
        end_idx   == find_index(R, end, FALSE)
    IN  IF start_idx % 2 = 1 THEN [raised |-> "none", result |-> TRUE]
        ELSE [raised |-> "none", result |-> (start_idx # end_idx)]

----------------------------------------------------------------------------
(* Characters and Python string methods *)

\* Characters matched by the regular expression \s
Whitespace == {" "}

\* _TERMINALS: punctuation that can end a sentence
Terminals == {".", "!", "?", "\""}

\* The character clear_span writes over a redacted offset
Placeholder == "*"

LowerLetters == <<"a", "e", "n", "v", "x">>

UpperLetters == <<"A", "E", "N", "V", "X">>

Digits == {"0", "1", "2", "3", "4", "5", "6", "7", "8", "9"}

Range(seq) == {seq[i] : i \in 1..Len(seq)}

IsLower(c) == c \in Range(LowerLetters)

IsUpper(c) == c \in Range(UpperLetters)

\* str.isalpha on one character
IsAlpha(c) == IsLower(c) \/ IsUpper(c)

\* str.isdigit on one character
IsDigit(c) == c \in Digits

IndexIn(seq, c) == CHOOSE i \in 1..Len(seq) : seq[i] = c

\* str.upper on one character
UpperChar(c) == IF IsLower(c) THEN UpperLetters[IndexIn(LowerLetters, c)] ELSE c

\* str.lower on one character
LowerChar(c) == IF IsUpper(c) THEN LowerLetters[IndexIn(UpperLetters, c)] ELSE c

\* str.upper
StrUpper(str) == [i \in 1..Len(str) |-> UpperChar(str[i])]

\* str.lower
StrLower(str) == [i \in 1..Len(str) |-> LowerChar(str[i])]

\* str.capitalize: first character upper-cased, the rest lower-cased
StrCapitalize(str) ==
    [i \in 1..Len(str) |-> IF i = 1 THEN UpperChar(str[i]) ELSE LowerChar(str[i])]

\* str.isupper: at least one cased character and no lower-case one
StrIsUpper(str) ==
    /\ \E i \in 1..Len(str) : IsUpper(str[i])
    /\ \A i \in 1..Len(str) : ~IsLower(str[i])

----------------------------------------------------------------------------
(* source_text.py *)

\* _capitalize: upper-case the first alphabetic character of the text
capitalize(str) ==
    IF \E i \in 1..Len(str) : IsAlpha(str[i])
    THEN LET i == CHOOSE k \in 1..Len(str) :
                      IsAlpha(str[k]) /\ \A j \in 1..(k - 1) : ~IsAlpha(str[j])
         IN  [str EXCEPT ![i] = UpperChar(str[i])]
    ELSE str

\* The while loop of _is_sent_start; doc.text[index] raises IndexError
\* for an index at or beyond the end of the text.
RECURSIVE sent_loop(_, _, _, _, _)
sent_loop(txt, doc, index, end_ptr, seen_space) ==
    IF index >= end_ptr
    THEN IF index >= Len(txt)
         THEN [raised |-> "IndexError", value |-> FALSE]
         ELSE LET char == At(txt, index)
              IN  IF index \in doc.punct /\ char \in Terminals
                  THEN [raised |-> "none", value |-> (index \in doc.sentEnd)]
                  ELSE IF char \in Whitespace
                  THEN sent_loop(txt, doc, index - 1, end_ptr, TRUE)
                  ELSE IF seen_space
                  THEN [raised |-> "none", value |-> FALSE]
                  ELSE sent_loop(txt, doc, index - 1, end_ptr, seen_space)
    ELSE [raised |-> "none", value |-> (index = 0)]

\* _is_sent_start
is_sent_start(txt, doc, index) ==
    sent_loop(txt, doc, index, Max(0, index - 3), FALSE)

\* Mutant of _clamp_to_word_boundary: the index moves one character only,
\* an `if` in place of the `while`.
clamp_one_step(txt, index, up) ==
    IF index > 0 /\ index < Len(txt) - 1 /\ At(txt, index) \in Whitespace
    THEN index + (IF up THEN 1 ELSE 0 - 1)
    ELSE index

\* _clamp_to_word_boundary
RECURSIVE clamp_to_word_boundary(_, _, _)
clamp_to_word_boundary(txt, index, up) ==
    IF index > 0 /\ index < Len(txt) - 1 /\ At(txt, index) \in Whitespace
    THEN clamp_to_word_boundary(txt, index + (IF up THEN 1 ELSE 0 - 1), up)
    ELSE index

\* The character that decides the article: the first letter or digit
FirstAlnum(str) ==
    IF \E i \in 1..Len(str) : IsAlpha(str[i]) \/ IsDigit(str[i])
    THEN LET i == CHOOSE k \in 1..Len(str) :
                      /\ IsAlpha(str[k]) \/ IsDigit(str[k])
                      /\ \A j \in 1..(k - 1) : ~(IsAlpha(str[j]) \/ IsDigit(str[j]))
         IN  <<str[i]>>
    ELSE << >>

\* _get_indefinite_article_for_text
get_indefinite_article_for_text(str) ==
    LET first == FirstAlnum(str)
        needs_epenthesis ==
            IF first = << >> THEN FALSE
            ELSE IF IsAlpha(first[1])
                 THEN LowerChar(first[1]) \in {"a", "e", "i", "o", "u"}
                 ELSE first[1] = "8"
    IN  IF needs_epenthesis THEN <<"a", "n">> ELSE <<"a">>

\* The while loop of _correct_indef_article over the scan state
\* [ptr, words, wti, space_str, scanning, raised].
RECURSIVE article_loop(_, _, _)
article_loop(txt, st, end_ptr) ==
    IF st.ptr >= end_ptr
    THEN IF st.ptr >= Len(txt)
         THEN [st EXCEPT !.raised = "IndexError"]
         ELSE LET char == At(txt, st.ptr)
              IN  IF char = " "
                  THEN IF Len(st.words) = 2
                       THEN st
                       ELSE article_loop(txt,
                                [st EXCEPT !.space_str = <<char>> \o @,
                                           !.scanning = FALSE,
                                           !.ptr = @ - 1],
                                end_ptr)
                  ELSE LET st1 == IF ~st.scanning
                                  THEN [st EXCEPT !.scanning = TRUE,
                                                  !.words = Append(@, << >>),
                                                  !.wti = Append(@, st.ptr + 1)]
                                  ELSE st
                       IN  article_loop(txt,
                               [st1 EXCEPT !.words[Len(st1.words)] = <<char>> \o @,
                                           !.ptr = @ - 1],
                               end_ptr)
    ELSE st

\* _correct_indef_article: the error raised, if any, the corrected text and
\* the new start index.
correct_indef_article(txt, str, index) ==
    LET correct_article == get_indefinite_article_for_text(str)
        st == article_loop(txt,
                  [ptr |-> index, words |-> << >>, wti |-> << >>,
                   space_str |-> << >>, scanning |-> FALSE, raised |-> "none"],
                  Max(0, index - 4))
        n  == Len(st.words)
    IN  IF st.raised # "none"
        THEN [raised |-> st.raised, text |-> str, index |-> index]
        ELSE IF n < 2 \/ StrLower(st.words[n]) \notin {<<"a">>, <<"a", "n">>}
        THEN [raised |-> "none", text |-> str, index |-> index]
        ELSE LET existing_article == st.words[n]
                 cased == IF StrIsUpper(existing_article)
                          THEN StrUpper(correct_article)
                          ELSE IF IsUpper(existing_article[1])
                          THEN StrCapitalize(correct_article)
                          ELSE correct_article
             IN  [raised |-> "none",
                  text   |-> cased \o st.space_str \o str,
                  index  |-> st.wti[n] - Len(existing_article)]

\* Mutant of can_redact: only the first offset of the span is tested.
can_redact_start_only(R, start, end) ==
    IF end <= start THEN [raised |-> "ValueError", result |-> FALSE]
    ELSE [raised |-> "none", result |-> ~contains(R, start)]

\* SourceText.can_redact: the error raised by overlaps, if any, and the
\* value returned.
can_redact(R, start, end) ==
    LET o == overlaps(R, start, end)
    IN  [raised |-> o.raised, result |-> ~o.result]

\* (placeholder * extent)[:extent]
Fill(extent) == [i \in 1..Max(0, extent) |-> Placeholder]

\* Mutant of clear_span: the view is overwritten but the span is not
\* recorded in the interval set.
clear_span_untracked(v, R, start, end) ==
    LET extent   == end - start
        new_span == Fill(extent)
    IN  [raised  |-> addspan(R, start, end).raised,
         view    |-> Slice(v, 0, start) \o new_span \o Slice(v, end, Len(v)),
         cleared |-> R]

\* SourceText.clear_span: the view is overwritten first, then the span is
\* given to cleared.addspan, which may raise.
clear_span(v, R, start, end) ==
    LET extent   == end - start
        new_span == Fill(extent)
        added    == addspan(R, start, end)
    IN  [raised  |-> added.raised,
         view    |-> Slice(v, 0, start) \o new_span \o Slice(v, end, Len(v)),
         cleared |-> added.range]

\* SourceText.redact: the error raised, if any, the view and interval set
\* left behind, and the Redaction returned (start, end, text).
redact(txt, doc, v, R, start, end, str, clamp, auto_capitalize, autocorrect_article, force) ==
    LET unchanged(err) == [raised |-> err, view |-> v, cleared |-> R,
                           start |-> start, end |-> end, text |-> str]
        can == can_redact(R, start, end)
    IN  IF ~force /\ can.raised # "none" THEN unchanged(can.raised)
        ELSE IF ~force /\ ~can.result THEN unchanged("OverlapError")
        ELSE
        LET start1 == IF clamp THEN clamp_to_word_boundary(txt, start, TRUE)
                      ELSE start
            end1   == IF clamp
                      THEN clamp_to_word_boundary(txt, end - 1, FALSE) + 1
                      ELSE end
            art    == IF autocorrect_article
                      THEN correct_indef_article(txt, str, start1)
                      ELSE [raised |-> "none", text |-> str, index |-> start1]
        IN  IF art.raised # "none" THEN unchanged(art.raised)
            ELSE
            LET start2 == art.index
                sent   == IF auto_capitalize
                          THEN is_sent_start(txt, doc, start2)
                          ELSE [raised |-> "none", value |-> FALSE]
            IN  IF sent.raised # "none" THEN unchanged(sent.raised)
                ELSE
                LET text2 == IF sent.value THEN capitalize(art.text)
                             ELSE art.text
                    c     == clear_span(v, R, start2, end1)
                IN  [raised |-> c.raised, view |-> c.view,
                     cleared |-> c.cleared,
                     start |-> start2, end |-> end1, text |-> text2]

----------------------------------------------------------------------------
(* Reference semantics used to state the properties *)

\* The integers of the half-open span [s, e)
SpanSet(s, e) == {x \in s..(e - 1) : TRUE}

\* The integers covered by a boundary list read as [R0,R1), [R2,R3), ...
Covered(R) ==
    UNION {SpanSet(At(R, 2 * k), At(R, 2 * k + 1)) :
             k \in {j \in 0..(Len(R) \div 2) : 2 * j + 1 < Len(R)}}

\* Number of maximal runs of consecutive integers in a set
RunCount(S) == Cardinality({x \in S : (x - 1) \notin S})

----------------------------------------------------------------------------
(* BrokenRange as a state machine *)

NoCall == [op |-> "none", start |-> 0, end |-> 0, raised |-> "none",
           result |-> FALSE]

\* An NLP result with no punctuation tokens
NoNlp == [punct |-> {}, sentEnd |-> {}]

\* No rule pipeline is running
NoPipe == [pc |-> "idle", sig |-> 0, pending |-> << >>, raised |-> "none"]

NoStCall == [op |-> "none", start |-> 0, end |-> 0, force |-> FALSE,
             raised |-> "none", result |-> FALSE,
             rstart |-> 0, rend |-> 0, rtext |-> << >>]

\* merge_annotations is not running
NoMerge == [pc |-> "idle", input |-> << >>, rest |-> << >>, final |-> << >>,
            current |-> << >>, result |-> << >>]

\* dedupe is not running
NoDedupe == [pc |-> "idle"]

InitSourceTextIdle ==
    /\ text = << >>
    /\ view = << >>
    /\ cleared = << >>
    /\ returned = {}
    /\ onlyDefault = TRUE
    /\ stCall = NoStCall
    /\ ncalls = 0
    /\ nlp = NoNlp
    /\ pipe = NoPipe
    /\ ann = NoMerge
    /\ dd = NoDedupe

Init ==
    /\ brRange = << >>
    /\ brCovered = {}
    /\ brCall = NoCall
    /\ InitSourceTextIdle

AddSpan(start, end) ==
    LET r == addspan(brRange, start, end)
    IN  /\ brRange' = r.range
        /\ brCovered' = IF r.raised = "none"
                        THEN brCovered \cup SpanSet(start, end)
                        ELSE brCovered
        /\ brCall' = [op |-> "addspan", start |-> start, end |-> end,
                      raised |-> r.raised, result |-> FALSE]
        /\ UNCHANGED stVars

Contains(value) ==
    /\ brCall' = [op |-> "contains", start |-> value, end |-> value,
                  raised |-> "none", result |-> contains(brRange, value)]
    /\ UNCHANGED <<brRange, brCovered>>
    /\ UNCHANGED stVars

Overlaps(start, end) ==
    LET r == overlaps(brRange, start, end)
    IN  /\ brCall' = [op |-> "overlaps", start |-> start, end |-> end,
                      raised |-> r.raised, result |-> r.result]
        /\ UNCHANGED <<brRange, brCovered>>
        /\ UNCHANGED stVars

Next ==
    \/ \E start \in Points, end \in Points : AddSpan(start, end)
    \/ \E value \in Points : Contains(value)
    \/ \E start \in Points, end \in Points : Overlaps(start, end)

Spec == Init /\ [][Next]_vars

----------------------------------------------------------------------------
(* Properties of BrokenRange *)

\* Probes reach one position beyond the boundaries addspan can store.
Probes == (MinPoint - 1)..(MaxPoint + 1)

\* C1: after any sequence of successful addspan calls the stored boundary
\* list covers exactly the union of the inserted half-open spans, and it
\* holds one span per maximal run of covered integers (touching or
\* overlapping spans are stored as one span).
C1_AddspanStoresMergedUnion ==
    /\ Covered(brRange) = brCovered
    /\ Len(brRange) = 2 * RunCount(brCovered)

\* [0,1) is stored, then addspan(1,5) touches it: one span [0,5).
C1_Witness ==
    /\ brCall.op = "addspan"
    /\ brCall.start = 1
    /\ brCall.end = 5
    /\ brRange = <<0, 5>>

\* C2: the boundary list always has even length and is strictly increasing
\* (even indices are span starts, odd indices span ends), so stored spans
\* neither overlap nor touch.
C2_BoundaryListStrictlyIncreasing ==
    /\ Len(brRange) % 2 = 0
    /\ \A i \in 1..(Len(brRange) - 1) : brRange[i] < brRange[i + 1]

\* An addspan call has left at least three separate spans.
C2_Witness ==
    /\ brCall.op = "addspan"
    /\ brCall.raised = "none"
    /\ Len(brRange) >= 6

\* C3: for every integer x, contains(x) is true iff x lies in [s,e) of a
\* stored span: true at a span's start, false at its end, false when the
\* range is empty.
C3_ContainsIffInStoredSpan ==
    /\ \A x \in Probes : contains(brRange, x) <=> (x \in Covered(brRange))
    /\ brCall.op = "contains" =>
           (brCall.result <=> (brCall.start \in Covered(brRange)))

\* contains was asked about the exclusive end of the first stored span.
C3_Witness ==
    /\ brCall.op = "contains"
    /\ Len(brRange) >= 2
    /\ brCall.start = At(brRange, 1)
    /\ ~brCall.result

\* C4: for every start < end, overlaps(start,end) is true iff some integer
\* of [start,end) is covered by a stored span; touching a span only at its
\* exclusive end, or ending at a span's start, is no overlap.
C4_OverlapsIffSharesPoint ==
    /\ \A s \in Probes, e \in Probes :
           s < e => /\ overlaps(brRange, s, e).raised = "none"
                    /\ overlaps(brRange, s, e).result <=>
                           (SpanSet(s, e) \cap Covered(brRange) # {})
    /\ (brCall.op = "overlaps" /\ brCall.start < brCall.end) =>
           (brCall.result <=>
               (SpanSet(brCall.start, brCall.end) \cap Covered(brRange) # {}))

\* overlaps was asked about a probe starting at the exclusive end of the
\* first stored span and reaching no other span.
C4_Witness ==
    /\ brCall.op = "overlaps"
    /\ Len(brRange) = 2
    /\ brCall.start = At(brRange, 1)
    /\ brCall.end > brCall.start
    /\ ~brCall.result

\* C5: addspan and overlaps called with end <= start raise the
\* invalid-extent error (a ValueError) and leave the boundary list as it
\* was.
C5_InvalidExtentRaisesAndKeepsRange ==
    [][(brCall'.op \in {"addspan", "overlaps"}
          /\ brCall'.end <= brCall'.start)
        => (brCall'.raised = "ValueError" /\ brRange' = brRange)]_vars

\* addspan was called with an empty extent on a non-empty range.
C5_Witness ==
    /\ brCall.op = "addspan"
    /\ brCall.end = brCall.start
    /\ brCall.raised = "ValueError"
    /\ brRange # << >>

\* overlaps was called with an inverted extent.
C5_WitnessOverlaps ==
    /\ brCall.op = "overlaps"
    /\ brCall.end < brCall.start
    /\ brCall.raised = "ValueError"

----------------------------------------------------------------------------
(* SourceText as a state machine *)

\* Characters of the narratives: a space and the letter "a", which alone
\* is the indefinite article and repeated is any other word.
Alphabet == {" ", "a"}

Texts == UNION {[1..k -> Alphabet] : k \in 1..MaxTextLen}

\* Replacement texts handed to redact
Replacements == {<<"x">>}

\* Offsets of the text that hold sentence-terminal punctuation
TerminalOffsets(txt) == {i \in 0..(Len(txt) - 1) : At(txt, i) \in Terminals}

\* What the NLP pipeline may say of a text: which terminal characters are
\* PUNCT tokens of their own, and which of those end their sentence.
NlpResults(txt) ==
    {[punct |-> P, sentEnd |-> E] :
        P \in SUBSET TerminalOffsets(txt), E \in SUBSET TerminalOffsets(txt)}
    \cap {d \in [punct : SUBSET (0..Len(txt)), sentEnd : SUBSET (0..Len(txt))] :
            d.sentEnd \subseteq d.punct}

InitSourceText ==
    /\ text \in Texts
    /\ view = text
    /\ nlp \in NlpResults(text)
    /\ cleared = << >>
    /\ returned = {}
    /\ onlyDefault = TRUE
    /\ stCall = NoStCall
    /\ ncalls = 0
    /\ pipe = NoPipe
    /\ brRange = << >>
    /\ brCovered = {}
    /\ brCall = NoCall
    /\ ann = NoMerge
    /\ dd = NoDedupe

Redact(start, end, str, clamp, auto_capitalize, autocorrect_article, force) ==
    /\ ncalls < MaxCalls
    /\ \E r \in {redact(text, nlp, view, cleared, start, end, str, clamp,
                         auto_capitalize, autocorrect_article, force)} :
           /\ view' = r.view
           /\ cleared' = r.cleared
           /\ returned' = IF r.raised = "none"
                          THEN returned \cup {[start |-> r.start, end |-> r.end]}
                          ELSE returned
           /\ stCall' = [op |-> "redact", start |-> start, end |-> end,
                         force |-> force, raised |-> r.raised,
                         result |-> FALSE,
                         rstart |-> r.start, rend |-> r.end, rtext |-> r.text]
    /\ onlyDefault' = (onlyDefault /\ clamp /\ auto_capitalize
                          /\ autocorrect_article /\ ~force)
    /\ ncalls' = ncalls + 1
    /\ UNCHANGED <<text, nlp, pipe>>
    /\ UNCHANGED brVars
    /\ UNCHANGED idVars

\* Spans a caller may pass: 0 <= start < end <= len(text)
InBoundsSpans ==
    {sp \in (0..Len(text)) \X (0..Len(text)) : sp[1] < sp[2]}

NextSourceText ==
    \E sp \in InBoundsSpans, str \in Replacements,
       clamp \in BOOLEAN, auto_capitalize \in BOOLEAN,
       autocorrect_article \in BOOLEAN, force \in BOOLEAN :
       Redact(sp[1], sp[2], str, clamp, auto_capitalize,
              autocorrect_article, force)

SpecSourceText == InitSourceText /\ [][NextSourceText]_vars

----------------------------------------------------------------------------
(* Properties of SourceText *)

\* Spans a caller may probe: one offset beyond the text on either side.
ProbeOffsets == (0 - 1)..(Len(text) + 1)

\* The call just made was a redact call.
RedactStep == stCall'.op = "redact" /\ ncalls' = ncalls + 1

\* C6: once redact has returned a redaction for [s,e), can_redact(a,b) is
\* false for every span [a,b) sharing a character with [s,e), also after
\* any further redact calls.
C6_RedactedStaysUnredactable ==
    \A r \in returned : \A a \in ProbeOffsets, b \in ProbeOffsets :
        (a < b /\ SpanSet(a, b) \cap SpanSet(r.start, r.end) # {})
            => can_redact(cleared, a, b) = [raised |-> "none", result |-> FALSE]

\* Two redactions have been returned, the later by the last call made.
C6_Witness ==
    /\ Cardinality(returned) >= 2
    /\ stCall.op = "redact"
    /\ stCall.raised = "none"
    /\ ncalls >= 2

\* The requested span has 0 <= start < end <= len and holds a character
\* that is not whitespace.
HasNonSpace(start, end) ==
    /\ start < end
    /\ \E i \in start..(end - 1) : At(text, i) \notin Whitespace

C7_WitnessForced ==
    /\ stCall.op = "redact"
    /\ stCall.force
    /\ stCall.raised = "none"
    /\ ncalls >= 2
    /\ Len(cleared) = 2
    /\ \E r \in returned : r.start = stCall.rstart /\ r.end # stCall.rend

\* C8: over redact calls made with force unset and the default options,
\* the span of each redaction returned shares no offset with the span of
\* any redaction returned before it, a leftward extension over a preceding
\* article included.
C8_ReturnedSpansDisjoint ==
    [][(RedactStep /\ onlyDefault' /\ stCall'.raised = "none") =>
        \A p \in returned :
            SpanSet(p.start, p.end)
                \cap SpanSet(stCall'.rstart, stCall'.rend) = {}]_vars

\* C10: after redact calls on in-bounds spans the view is as long as the
\* original text, holds the placeholder at every offset of the interval
\* set and the original character at every other offset.
C10_ViewIsTextWithPlaceholders ==
    /\ Len(view) = Len(text)
    /\ \A i \in 0..(Len(text) - 1) :
           IF i \in Covered(cleared)
           THEN At(view, i) = Placeholder
           ELSE At(view, i) = At(text, i)

----------------------------------------------------------------------------
(* person.py: surface patterns of a person known by an indicator only *)

\* An atom of a surface pattern: a literal character, matched ignoring
\* case (re.IGNORECASE), or the class \W.
Lit(c) == [kind |-> "lit", char |-> c]

NonWordAtom == [kind |-> "nonword", char |-> ""]

\* Characters matched by \w
IsWordChar(c) == IsAlpha(c) \/ IsDigit(c) \/ c = "_"

AtomMatches(atom, c) ==
    IF atom.kind = "nonword" THEN ~IsWordChar(c)
    ELSE LowerChar(c) = LowerChar(atom.char)

\* Length of the regular expression text of an atom: \W and the escaped
\* parentheses take two characters.
AtomLen(atom) ==
    IF atom.kind = "nonword" \/ atom.char \in {"(", ")"} THEN 2 ELSE 1

RECURSIVE PatLen(_)
PatLen(pat) == IF pat = << >> THEN 0 ELSE AtomLen(Head(pat)) + PatLen(Tail(pat))

Literal(str) == [i \in 1..Len(str) |-> Lit(str[i])]

\* re.sub(r"([A-Z|a-z])", r"\1/", indicator): a slash after every letter
RECURSIVE slash_base(_)
slash_base(ind) ==
    IF ind = << >> THEN << >>
    ELSE IF IsAlpha(Head(ind))
    THEN <<Head(ind), "/">> \o slash_base(Tail(ind))
    ELSE <<Head(ind)>> \o slash_base(Tail(ind))

\* re.sub(r"([A-Z|a-z])(?=[A-Z|a-z])", r"\1/", indicator): a slash after
\* every letter that another letter follows
RECURSIVE middle_slash_base(_)
middle_slash_base(ind) ==
    IF ind = << >> THEN << >>
    ELSE IF IsAlpha(Head(ind)) /\ Len(ind) >= 2 /\ IsAlpha(ind[2])
    THEN <<Head(ind), "/">> \o middle_slash_base(Tail(ind))
    ELSE <<Head(ind)>> \o middle_slash_base(Tail(ind))

\* r"\W%s"
naked_ind(base) == <<NonWordAtom>> \o Literal(base)

\* r"\(%s\)"
paren_ind(base) == <<Lit("(")>> \o Literal(base) \o <<Lit(")")>>

\* sorted(reps, key=len, reverse=True); the indicator patterns of one
\* person differ in length.
RECURSIVE SortLongestFirst(_)
SortLongestFirst(S) ==
    IF S = {} THEN << >>
    ELSE LET m == CHOOSE x \in S : \A y \in S : PatLen(x) >= PatLen(y)
         IN  <<m>> \o SortLongestFirst(S \ {m})

\* PersonName._name_rep_impl for a person with an indicator and no name:
\* the six indicator patterns, longest first.
name_rep_impl(indicator) ==
    SortLongestFirst({naked_ind(indicator),
                      paren_ind(indicator),
                      naked_ind(slash_base(indicator)),
                      paren_ind(slash_base(indicator)),
                      naked_ind(middle_slash_base(indicator)),
                      paren_ind(middle_slash_base(indicator))})

----------------------------------------------------------------------------
(* masker.py: mask_person over the live text *)

\* The person the pipeline is given: indicator V1, code name (V1).
PersonIndicator == <<"V", "1">>

PersonCodeName == <<"(", "V", "1", ")">>

\* sorted_signs of mask_person
SortedSigns == name_rep_impl(PersonIndicator)

\* codename of mask_person for info == "person": the code name without its
\* parentheses, put in parentheses.
Codename ==
    <<"(">> \o SelectSeq(PersonCodeName, LAMBDA c : c \notin {"(", ")"})
            \o <<")">>

MatchesAt(pat, v, pos) ==
    /\ pos + Len(pat) <= Len(v)
    /\ \A i \in 1..Len(pat) : AtomMatches(pat[i], At(v, pos + i - 1))

\* pattern.finditer(doc.text): the leftmost non-overlapping matches in the
\* text as it is when the scan starts.
RECURSIVE finditer(_, _, _)
finditer(pat, v, pos) ==
    IF pos + Len(pat) > Len(v) THEN << >>
    ELSE IF MatchesAt(pat, v, pos)
    THEN <<[start |-> pos, end |-> pos + Len(pat)]>>
             \o finditer(pat, v, pos + Len(pat))
    ELSE finditer(pat, v, pos + 1)

NarrativeAlphabet == {"(", ")", "V", "1", " "}

Narratives == UNION {[1..k -> NarrativeAlphabet] : k \in 1..MaxNarrativeLen}

InitPipeline ==
    /\ text \in Narratives
    /\ view = text
    /\ nlp \in NlpResults(text)
    /\ cleared = << >>
    /\ returned = {}
    /\ onlyDefault = TRUE
    /\ stCall = NoStCall
    /\ ncalls = 0
    /\ pipe = [pc |-> "scan", sig |-> 0, pending |-> << >>, raised |-> "none"]
    /\ brRange = << >>
    /\ brCovered = {}
    /\ brCall = NoCall
    /\ ann = NoMerge
    /\ dd = NoDedupe

\* mask_person, outer loop: take the next surface pattern and scan the
\* live text for it.
NextSignifier ==
    /\ pipe.pc = "scan"
    /\ pipe.pending = << >>
    /\ pipe.sig < Len(SortedSigns)
    /\ pipe' = [pipe EXCEPT !.sig = @ + 1,
                            !.pending = finditer(SortedSigns[pipe.sig + 1],
                                                 view, 0)]
    /\ UNCHANGED <<text, nlp, view, cleared, returned, onlyDefault, stCall,
                   ncalls>>
    /\ UNCHANGED brVars
    /\ UNCHANGED idVars

\* mask_person, inner loop: redact the next match; an error raised by
\* redact is not caught and ends the generator and with it mask.
RedactMatch ==
    /\ pipe.pc = "scan"
    /\ pipe.pending # << >>
    /\ LET m          == Head(pipe.pending)
           possessive == Slice(view, m.end, m.end + 2) = <<"'", " ">>
           str        == IF possessive THEN Codename \o <<"'", "s">>
                         ELSE Codename
           end        == IF possessive THEN m.end + 1 ELSE m.end
       IN  \E r \in {redact(text, nlp, view, cleared, m.start, end, str,
                            TRUE, FALSE, FALSE, FALSE)} :
               /\ view' = r.view
               /\ cleared' = r.cleared
               /\ returned' = IF r.raised = "none"
                              THEN returned
                                       \cup {[start |-> r.start, end |-> r.end]}
                              ELSE returned
               /\ stCall' = [op |-> "redact", start |-> m.start, end |-> end,
                             force |-> FALSE, raised |-> r.raised,
                             result |-> FALSE, rstart |-> r.start,
                             rend |-> r.end, rtext |-> r.text]
               /\ pipe' = IF r.raised = "none"
                          THEN [pipe EXCEPT !.pending = Tail(@)]
                          ELSE [pipe EXCEPT !.pc = "raised",
                                            !.pending = << >>,
                                            !.raised = r.raised]
    /\ onlyDefault' = FALSE
    /\ ncalls' = ncalls + 1
    /\ UNCHANGED <<text, nlp>>
    /\ UNCHANGED brVars
    /\ UNCHANGED idVars

\* mask_person has gone through every surface pattern.
FinishMask ==
    /\ pipe.pc = "scan"
    /\ pipe.pending = << >>
    /\ pipe.sig = Len(SortedSigns)
    /\ pipe' = [pipe EXCEPT !.pc = "done"]
    /\ UNCHANGED <<text, nlp, view, cleared, returned, onlyDefault, stCall,
                   ncalls>>
    /\ UNCHANGED brVars
    /\ UNCHANGED idVars

NextPipeline ==
    \/ NextSignifier
    \/ RedactMatch
    \/ FinishMask

SpecPipeline == InitPipeline /\ [][NextPipeline]_vars

----------------------------------------------------------------------------
(* Properties of the rule pipeline *)

\* C9: in the rule pipeline a candidate match that overlaps a redacted
\* interval is skipped and the detector goes on with its next match: no
\* run of the pipeline ends with an OverlapError, also not for a surface
\* pattern whose leading \W matches a placeholder left by an earlier
\* redaction.
C9_PipelineNeverRaisesOverlapError ==
    pipe.raised # "OverlapError"

----------------------------------------------------------------------------
(* SourceText.redact called once on a fresh document *)

\* Narratives of the clamping runs have 1..MaxClampTextLen characters.
MaxClampTextLen == 5

\* Narratives of the article runs have 1..MaxArticleTextLen characters.
MaxArticleTextLen == 6

ClampTexts == UNION {[1..k -> {" ", "a"}] : k \in 1..MaxClampTextLen}

\* "a", "an", "A", "An" are articles; "Aa", "na", ... are other words.
ArticleAlphabet == {" ", "a", "A", "n"}

ArticleTexts == UNION {[1..k -> ArticleAlphabet] : k \in 1..MaxArticleTextLen}

\* Replacement texts: one that takes "a" and one that takes "an"
OnceReplacements == {<<"x">>, <<"e">>}

InitOnce(T) ==
    /\ text \in T
    /\ view = text
    /\ nlp \in NlpResults(text)
    /\ cleared = << >>
    /\ returned = {}
    /\ onlyDefault = TRUE
    /\ stCall = NoStCall
    /\ ncalls = 0
    /\ pipe = NoPipe
    /\ brRange = << >>
    /\ brCovered = {}
    /\ brCall = NoCall
    /\ ann = NoMerge
    /\ dd = NoDedupe

InitClamp == InitOnce(ClampTexts)

InitArticle == InitOnce(ArticleTexts)

\* The first redact call on a SourceText; the options of the call are kept
\* with its outcome.
RedactOnce(start, end, str, clamp, auto_capitalize, autocorrect_article) ==
    /\ ncalls = 0
    /\ \E r \in {redact(text, nlp, view, cleared, start, end, str, clamp,
                         auto_capitalize, autocorrect_article, FALSE)} :
           /\ view' = r.view
           /\ cleared' = r.cleared
           /\ returned' = IF r.raised = "none"
                          THEN {[start |-> r.start, end |-> r.end]}
                          ELSE {}
           /\ stCall' = [op |-> "redact", start |-> start, end |-> end,
                         force |-> FALSE, raised |-> r.raised,
                         result |-> FALSE,
                         rstart |-> r.start, rend |-> r.end, rtext |-> r.text,
                         str |-> str, clamp |-> clamp,
                         auto_capitalize |-> auto_capitalize,
                         autocorrect_article |-> autocorrect_article]
    /\ onlyDefault' = (clamp /\ auto_capitalize /\ autocorrect_article)
    /\ ncalls' = 1
    /\ UNCHANGED <<text, nlp, pipe>>
    /\ UNCHANGED brVars
    /\ UNCHANGED idVars

\* Calls of the clamping runs: any in-bounds span and any options
NextClamp ==
    \E sp \in InBoundsSpans, str \in OnceReplacements,
       clamp \in BOOLEAN, auto_capitalize \in BOOLEAN,
       autocorrect_article \in BOOLEAN :
       RedactOnce(sp[1], sp[2], str, clamp, auto_capitalize,
                  autocorrect_article)

\* Calls of the article runs: any in-bounds span, clamp left at its default
NextArticle ==
    \E sp \in InBoundsSpans, str \in OnceReplacements,
       auto_capitalize \in BOOLEAN, autocorrect_article \in BOOLEAN :
       RedactOnce(sp[1], sp[2], str, TRUE, auto_capitalize,
                  autocorrect_article)

SpecClamp == InitClamp /\ [][NextClamp]_vars

SpecArticle == InitArticle /\ [][NextArticle]_vars

----------------------------------------------------------------------------
(* Properties of a single redact call *)

\* The step is the first redact call on the document.
OnceStep == stCall'.op = "redact" /\ ncalls = 0 /\ ncalls' = 1

\* The scan of the clamp stops at offset i: the first or last offset of the
\* text, or a character that is not whitespace.
StopsAt(i) ==
    i <= 0 \/ i >= Len(text) - 1 \/ At(text, i) \notin Whitespace

\* C11 (as stated in the claim): with clamp set and article correction off
\* redact expands the requested span: the returned start is <= the
\* requested start and the returned end is >= the requested end.
C11_ClampExpandsSpan ==
    [][(OnceStep /\ stCall'.clamp /\ ~stCall'.autocorrect_article
          /\ stCall'.raised = "none")
        => (/\ stCall'.rstart <= stCall'.start
            /\ stCall'.rend >= stCall'.end)]_vars

\* C11 (amended): with clamp set and article correction off redact shrinks
\* the requested span: the returned start is >= the requested start and
\* the returned end is <= the requested end, the characters dropped at
\* either side are all whitespace, and each boundary stops at the first
\* character that is not whitespace, or at the first or last offset of the
\* text.
C11_ClampShrinksSpan ==
    [][(OnceStep /\ stCall'.clamp /\ ~stCall'.autocorrect_article
          /\ stCall'.raised = "none")
        => (/\ stCall'.rstart >= stCall'.start
            /\ stCall'.rend <= stCall'.end
            /\ \A i \in stCall'.start..(stCall'.rstart - 1) :
                   At(text, i) \in Whitespace
            /\ \A i \in stCall'.rend..(stCall'.end - 1) :
                   At(text, i) \in Whitespace
            /\ StopsAt(stCall'.rstart)
            /\ StopsAt(stCall'.rend - 1))]_vars

\* A clamped call returned a span shorter than the requested one at both
\* sides.
C11_Witness ==
    /\ stCall.op = "redact"
    /\ stCall.clamp
    /\ ~stCall.autocorrect_article
    /\ stCall.raised = "none"
    /\ stCall.rstart > stCall.start
    /\ stCall.rend < stCall.end

\* C12: with clamp set, for every requested span holding a character that
\* is not whitespace (spans beginning at offset 0 or ending at the last
\* character included), redact returns a redaction whose span neither
\* begins nor ends on a whitespace character of the original text.
C12_ClampedSpanHasNoSpaceAtEnds ==
    [][(OnceStep /\ stCall'.clamp
          /\ HasNonSpace(stCall'.start, stCall'.end))
        => (/\ stCall'.raised = "none"
            /\ At(text, stCall'.rstart) \notin Whitespace
            /\ At(text, stCall'.rend - 1) \notin Whitespace)]_vars

\* A word precedes offset s: some character before s is not a space and
\* only spaces, at least one, lie between it and s.
HasPrevWord(s) ==
    \E j \in 0..(s - 2) :
        /\ At(text, j) # " "
        /\ \A i \in (j + 1)..(s - 1) : At(text, i) = " "

\* Offset of the last character of the word preceding offset s
PrevWordLast(s) ==
    CHOOSE j \in 0..(s - 2) :
        /\ At(text, j) # " "
        /\ \A i \in (j + 1)..(s - 1) : At(text, i) = " "

\* Offset of the first character of the word preceding offset s
PrevWordFirst(s) ==
    CHOOSE p \in 0..PrevWordLast(s) :
        /\ \A i \in p..PrevWordLast(s) : At(text, i) # " "
        /\ p = 0 \/ At(text, p - 1) = " "

\* The word preceding offset s
PrevWord(s) == Slice(text, PrevWordFirst(s), PrevWordLast(s) + 1)

\* The spaces between the word preceding offset s and s
PrevSpacing(s) == Slice(text, PrevWordLast(s) + 1, s)

IsArticle(word) == StrLower(word) \in {<<"a">>, <<"a", "n">>}

\* The article the claim asks for: "an" iff the first letter of the
\* replacement is a vowel or its first digit is 8, in the capitalization
\* pattern of the article found.
ExpectedArticle(found, str) ==
    LET first == FirstAlnum(str)
        base  == IF first # << >>
                    /\ first[1] \in {"a", "e", "i", "o", "u",
                                     "A", "E", "I", "O", "U", "8"}
                 THEN <<"a", "n">> ELSE <<"a">>
    IN  IF found = StrLower(found) THEN base
        ELSE IF Len(found) = 2 /\ found = StrUpper(found) THEN StrUpper(base)
        ELSE StrCapitalize(base)

\* The requested span starts on the first character of a word.
StartsWord(s) == At(text, s) # " " /\ (s = 0 \/ At(text, s - 1) = " ")

\* C13: with article correction on (and auto-capitalize off), when the word
\* before the span is "a" or "an", separated from it by spaces, the
\* redaction returned starts at the first character of the article and its
\* text is the article fitting the replacement, written in the
\* capitalization pattern of the original article, then the original
\* spacing, then the replacement.
C13_ArticleRewrittenInOriginalCase ==
    [][(OnceStep /\ stCall'.autocorrect_article /\ ~stCall'.auto_capitalize
          /\ StartsWord(stCall'.start) /\ HasPrevWord(stCall'.start)
          /\ IsArticle(PrevWord(stCall'.start)))
        => (/\ stCall'.raised = "none"
            /\ stCall'.rstart = PrevWordFirst(stCall'.start)
            /\ stCall'.rtext =
                   ExpectedArticle(PrevWord(stCall'.start), stCall'.str)
                       \o PrevSpacing(stCall'.start) \o stCall'.str)]_vars

\* C14: with article correction on (and auto-capitalize off), when the word
\* before the span, whatever the number of spaces between, is not exactly
\* "a" or "an", redact returns the replacement text and the start offset
\* as the article step found them.
C14_NoArticleNoRewrite ==
    [][(OnceStep /\ stCall'.autocorrect_article /\ ~stCall'.auto_capitalize
          /\ stCall'.raised = "none"
          /\ StartsWord(stCall'.start) /\ HasPrevWord(stCall'.start)
          /\ ~IsArticle(PrevWord(stCall'.start)))
        => (/\ stCall'.rstart = stCall'.start
            /\ stCall'.rtext = stCall'.str)]_vars

\* The first alphabetic character of the text is upper-case.
FirstAlphaIsUpper(str) ==
    \E i \in 1..Len(str) :
        /\ IsUpper(str[i])
        /\ \A j \in 1..(i - 1) : ~IsAlpha(str[j])

\* C15: with auto-capitalize on, a redaction whose start offset lies in the
\* first word of the document, offset 0 included, has the first alphabetic
\* character of its text upper-cased; one whose start offset is preceded
\* by another word, with no sentence-terminal punctuation between, has its
\* text left as it was (article correction off).
C15_SentenceInitialIsCapitalized ==
    [][(OnceStep /\ stCall'.auto_capitalize /\ stCall'.raised = "none")
        => (/\ (\A i \in 0..stCall'.rstart : At(text, i) # " ")
                   => FirstAlphaIsUpper(stCall'.rtext)
            /\ (/\ ~stCall'.autocorrect_article
                /\ HasPrevWord(stCall'.rstart)
                /\ \A i \in 0..stCall'.rstart : At(text, i) \notin Terminals)
                   => stCall'.rtext = stCall'.str)]_vars

----------------------------------------------------------------------------
(* masker.py: merge_annotations *)

\* At most MaxAnnotations redactions are given to merge_annotations.
MaxAnnotations == 2

\* Narratives given to merge_annotations have MaxMergeTextLen characters.
MaxMergeTextLen == 4

\* Lengths of the spans of the redactions given to merge_annotations
SpanLens == {1, 2}

\* A Redaction (annotation.py) as merge_annotations reads it: start, end,
\* text and info.
Redactions(len) ==
    {[start |-> sp[1], end |-> sp[2], text |-> ti[1], info |-> ti[2]] :
        sp \in {q \in (0..len) \X (0..len) : (q[2] - q[1]) \in SpanLens},
        ti \in {<<"x", "person">>, <<"y", "person">>, <<"x", "race">>}}

\* The list handed over by mask: the i-th object has identity i, and
\* members holds the identities of the input redactions merged into it.
AnnotationList(f, n) ==
    [i \in 1..n |->
        [id |-> i, start |-> f[i].start, end |-> f[i].end,
         text |-> f[i].text, info |-> f[i].info, members |-> {i}]]

\* annotations.sort(key=lambda x: x.start, reverse=True): a stable sort,
\* redactions of equal start keep their order.
RECURSIVE sort_by_start_reversed(_)
sort_by_start_reversed(seq) ==
    IF seq = << >> THEN << >>
    ELSE LET i == CHOOSE k \in 1..Len(seq) :
                      \A j \in 1..Len(seq) :
                          /\ seq[j].start <= seq[k].start
                          /\ seq[j].start = seq[k].start => k <= j
         IN  <<seq[i]>>
                 \o sort_by_start_reversed(
                        SubSeq(seq, 1, i - 1) \o SubSeq(seq, i + 1, Len(seq)))

\* Mutant of the merge test: the info of the two redactions is compared
\* but not required to be "person".
should_merge_any_info(narrative, end_annotation, annotation) ==
    /\ end_annotation.start - annotation.end <= 1
    /\ end_annotation.text = annotation.text
    /\ end_annotation.info = annotation.info
    /\ LET gap == Slice(narrative, annotation.end, end_annotation.start)
       IN  gap # << >> /\ gap[1] \in Whitespace

\* The test of the loop of merge_annotations; re.match(r"\s", s) succeeds
\* iff s is not empty and begins with whitespace.
should_merge(narrative, end_annotation, annotation) ==
    /\ end_annotation.start - annotation.end <= 1
    /\ end_annotation.text = annotation.text
    /\ end_annotation.info = annotation.info
    /\ end_annotation.info = "person"
    /\ LET gap == Slice(narrative, annotation.end, end_annotation.start)
       IN  gap # << >> /\ gap[1] \in Whitespace

\* Mutant of the merge: the start of the kept redaction is left as it was.
merge_into_keeps_start(end_annotation, annotation) ==
    [end_annotation EXCEPT !.members = @ \cup annotation.members]

\* end_annotation.start = annotation.start
merge_into(end_annotation, annotation) ==
    [end_annotation EXCEPT !.start = annotation.start,
                           !.members = @ \cup annotation.members]

InitMerge ==
    /\ text \in [1..MaxMergeTextLen -> {" ", "a"}]
    /\ \E n \in 0..MaxAnnotations :
           \E f \in [1..n -> Redactions(Len(text))] :
               ann = [pc |-> "start", input |-> AnnotationList(f, n),
                      rest |-> << >>, final |-> << >>, current |-> << >>,
                      result |-> << >>]
    /\ view = text
    /\ cleared = << >>
    /\ returned = {}
    /\ onlyDefault = TRUE
    /\ stCall = NoStCall
    /\ ncalls = 0
    /\ nlp = NoNlp
    /\ pipe = NoPipe
    /\ dd = NoDedupe
    /\ brRange = << >>
    /\ brCovered = {}
    /\ brCall = NoCall

\* merge_annotations up to the loop: a list of at most one redaction is
\* returned as it is, any other is sorted and its first redaction taken.
SortAnnotations ==
    /\ ann.pc = "start"
    /\ ann' = IF Len(ann.input) <= 1
              THEN [ann EXCEPT !.pc = "done", !.result = ann.input]
              ELSE LET sorted == sort_by_start_reversed(ann.input)
                   IN  [ann EXCEPT !.pc = "loop",
                                   !.current = <<Head(sorted)>>,
                                   !.rest = Tail(sorted)]
    /\ UNCHANGED <<text, view, cleared, returned, onlyDefault, stCall,
                   ncalls, nlp, pipe, dd>>
    /\ UNCHANGED brVars

\* One iteration of the loop of merge_annotations
MergeStep ==
    /\ ann.pc = "loop"
    /\ ann.rest # << >>
    /\ LET end_annotation == ann.current[1]
           annotation     == Head(ann.rest)
       IN  ann' = IF should_merge(text, end_annotation, annotation)
                  THEN [ann EXCEPT
                           !.current = <<merge_into(end_annotation, annotation)>>,
                           !.rest = Tail(@)]
                  ELSE [ann EXCEPT
                           !.final = Append(@, end_annotation),
                           !.current = <<annotation>>,
                           !.rest = Tail(@)]
    /\ UNCHANGED <<text, view, cleared, returned, onlyDefault, stCall,
                   ncalls, nlp, pipe, dd>>
    /\ UNCHANGED brVars

\* The end of merge_annotations: the last redaction is appended and the
\* list returned.
ReturnAnnotations ==
    /\ ann.pc = "loop"
    /\ ann.rest = << >>
    /\ ann' = [ann EXCEPT !.pc = "done",
                          !.final = Append(@, ann.current[1]),
                          !.result = Append(ann.final, ann.current[1])]
    /\ UNCHANGED <<text, view, cleared, returned, onlyDefault, stCall,
                   ncalls, nlp, pipe, dd>>
    /\ UNCHANGED brVars

NextMerge ==
    \/ SortAnnotations
    \/ MergeStep
    \/ ReturnAnnotations

SpecMerge == InitMerge /\ [][NextMerge]_vars

----------------------------------------------------------------------------
(* Properties of merge_annotations *)

\* The step is an iteration of the loop over the sorted redactions.
MergeStepTaken ==
    ann.pc = "loop" /\ ann.rest # << >> /\ ann'.rest = Tail(ann.rest)

\* The iteration merged the redaction into the previous one.
MergedInStep ==
    /\ ann'.final = ann.final
    /\ ann'.current = <<[ann.current[1] EXCEPT
                            !.start = Head(ann.rest).start,
                            !.members = @ \cup Head(ann.rest).members]>>

\* The iteration kept the two redactions separate.
SeparateInStep ==
    /\ ann'.final = Append(ann.final, ann.current[1])
    /\ ann'.current = <<Head(ann.rest)>>

\* Number of characters between the redaction and the previous one
GapInStep == ann.current[1].start - Head(ann.rest).end

SameLabelInStep ==
    /\ ann.current[1].text = Head(ann.rest).text
    /\ ann.current[1].info = "person"
    /\ Head(ann.rest).info = "person"

\* C16 (as stated in the claim): a redaction is merged into the previous,
\* higher-offset one exactly when the gap between them is zero or one
\* character, both have the same replacement text, both have info
\* "person", and the gap, if it is one character, is whitespace; in every
\* other case the two stay separate.
C16_MergeIffGapAtMostOne ==
    [][MergeStepTaken =>
        IF /\ GapInStep \in {0, 1}
           /\ SameLabelInStep
           /\ GapInStep = 1 => At(text, Head(ann.rest).end) \in Whitespace
        THEN MergedInStep
        ELSE SeparateInStep]_vars

\* C16 (amended): a redaction is merged into the previous, higher-offset
\* one exactly when the gap between them is one character and that
\* character is whitespace, both have the same replacement text and both
\* have info "person"; in every other case, a gap of zero characters
\* included, the two stay separate.
C16_MergeIffOneSpaceBetween ==
    [][MergeStepTaken =>
        IF /\ GapInStep = 1
           /\ SameLabelInStep
           /\ At(text, Head(ann.rest).end) \in Whitespace
        THEN MergedInStep
        ELSE SeparateInStep]_vars

\* Two person redactions with the same text and one space between them
\* have been merged into one.
C16_Witness ==
    /\ ann.pc = "loop"
    /\ ann.rest = << >>
    /\ Cardinality(ann.current[1].members) = 2
    /\ ann.current[1].info = "person"

\* The spans of the input redactions share no offset.
DisjointInput ==
    \A i \in 1..Len(ann.input), j \in 1..Len(ann.input) :
        i # j => SpanSet(ann.input[i].start, ann.input[i].end)
                     \cap SpanSet(ann.input[j].start, ann.input[j].end) = {}

\* The member of a run with the lowest / the highest start
LowestMember(r) ==
    CHOOSE m \in r.members :
        \A k \in r.members : ann.input[m].start <= ann.input[k].start

HighestMember(r) ==
    CHOOSE m \in r.members :
        \A k \in r.members : ann.input[m].start >= ann.input[k].start

\* C17: the list merge_annotations returns is in strictly descending start
\* order when the input spans are disjoint; each redaction of it spans from
\* the start of the lowest member of its run to the end of the highest and
\* covers every member; every input redaction is in exactly one run; the
\* list is not longer than the input.
C17_OutputIsDescendingUnionOfRuns ==
    ann.pc = "done" =>
        /\ DisjointInput =>
               \A i \in 1..(Len(ann.result) - 1) :
                   ann.result[i].start > ann.result[i + 1].start
        /\ \A k \in 1..Len(ann.result) :
               LET r == ann.result[k]
               IN  /\ r.members # {}
                   /\ r.members \subseteq 1..Len(ann.input)
                   /\ r.start = ann.input[LowestMember(r)].start
                   /\ r.end = ann.input[HighestMember(r)].end
                   /\ \A m \in r.members :
                          /\ r.start <= ann.input[m].start
                          /\ ann.input[m].end <= r.end
        /\ \A i \in 1..Len(ann.input) :
               Cardinality({k \in 1..Len(ann.result) :
                               i \in ann.result[k].members}) = 1
        /\ Len(ann.result) <= Len(ann.input)

\* merge_annotations has returned one redaction for a run of two.
C17_Witness ==
    /\ ann.pc = "done"
    /\ Len(ann.input) = 2
    /\ Len(ann.result) = 1
    /\ ann.result[1].members = {1, 2}
    /\ ann.result[1].end - ann.result[1].start >= 3

----------------------------------------------------------------------------
(* person.py, officer.py: identity of references *)

\* None
None == "None"

\* The sequence without its k-th element
Without(seq, k) == SubSeq(seq, 1, k - 1) \o SubSeq(seq, k + 1, Len(seq))

\* damerau.distance(a, b) <= 1: the names are equal, or one insertion,
\* deletion, substitution or transposition of adjacent characters apart.
damerau_within_one(a, b) ==
    \/ a = b
    \/ /\ Len(a) = Len(b)
       /\ \/ Cardinality({i \in 1..Len(a) : a[i] # b[i]}) = 1
          \/ \E i \in 1..(Len(a) - 1) :
                 /\ a[i] = b[i + 1]
                 /\ a[i + 1] = b[i]
                 /\ \A j \in 1..Len(a) : j \notin {i, i + 1} => a[j] = b[j]
    \/ /\ Len(a) = Len(b) + 1
       /\ \E k \in 1..Len(a) : Without(a, k) = b
    \/ /\ Len(b) = Len(a) + 1
       /\ \E k \in 1..Len(b) : Without(b, k) = a

\* _name_match(s1, s2, 1)
name_match(s1, s2) ==
    \E a \in s1, b \in s2 : damerau_within_one(a, b)

\* PersonName.__eq__
person_eq(self, other) ==
    IF self.court_no # None /\ other.court_no # None
    THEN self.court_no = other.court_no
    ELSE IF self.sfno # None /\ other.sfno # None
    THEN self.sfno = other.sfno
    ELSE
      \/ /\ name_match(self.last, other.last)
         /\ IF self.first # {} /\ other.first # {}
            THEN name_match(self.first, other.first)
            ELSE TRUE
      \/ self.alias \cap other.alias # {}
      \/ \E name \in other.last \cup other.first :
             Len(name) > 1 /\ name \in self.alias
      \/ \E name \in self.last \cup self.first :
             Len(name) > 1 /\ name \in other.alias
      \/ /\ \/ self.last = {} /\ self.first = {}
            \/ other.last = {} /\ other.first = {}
         /\ self.id_triplet = other.id_triplet

\* OfficerName.__eq__
officer_eq(self, other) ==
    IF self.dgt5_code # other.dgt5_code THEN FALSE
    ELSE \/ self.star # None /\ self.star = other.star
         \/ self.name \cap other.name # {}

\* person_a == person_b for the two variants of Individual
ref_eq(self, other) ==
    IF self.kind = "person" THEN person_eq(self, other)
    ELSE officer_eq(self, other)

\* The fields PersonName.merge assigns; group holds the identities of the
\* objects merged into the receiver.
person_union(self, other) ==
    [self EXCEPT !.sfno = IF @ = None THEN other.sfno ELSE @,
                 !.id_triplet = @ \cup other.id_triplet,
                 !.first = @ \cup other.first,
                 !.middle = @ \cup other.middle,
                 !.last = @ \cup other.last,
                 !.alias = @ \cup other.alias,
                 !.group = @ \cup other.group]

\* The fields OfficerName.merge assigns
officer_union(self, other) ==
    [self EXCEPT !.dgt5_code = IF @ = None THEN other.dgt5_code ELSE @,
                 !.star = IF @ = None THEN other.star ELSE @,
                 !.title = IF @ = None THEN other.title ELSE @,
                 !.name = @ \cup other.name,
                 !.group = @ \cup other.group]

ref_union(self, other) ==
    IF self.kind = "person" THEN person_union(self, other)
    ELSE officer_union(self, other)

\* Mutant of merge: the fields are assigned before the references are
\* compared.
merge_assigns_first(self, other) ==
    [raised |-> IF ref_eq(self, other) THEN "none"
                ELSE "MergeDifferentPersonsError",
     self   |-> ref_union(self, other)]

\* PersonName.merge / OfficerName.merge: the error raised, if any, and the
\* receiver as the call leaves it.
merge(self, other) ==
    IF ~ref_eq(self, other)
    THEN [raised |-> "MergeDifferentPersonsError", self |-> self]
    ELSE [raised |-> "none", self |-> ref_union(self, other)]

----------------------------------------------------------------------------
(* individual.py: dedupe *)

\* At most MaxMentions references are given to dedupe.
MaxMentions == 3

\* Names of the references
AL == <<"A", "L">>

JO == <<"J", "O">>

DOE == <<"D", "O", "E">>

DOES == <<"D", "O", "E", "S">>

\* The (first names, last names) a roster record is built with: none, one
\* of them, both, a different first name, and a last name one edit away.
PersonNames ==
    {<<{}, {}>>, <<{}, {DOE}>>, <<{AL}, {}>>, <<{AL}, {DOE}>>,
     <<{JO}, {DOE}>>, <<{AL}, {DOES}>>}

\* PersonName(f_name=..., l_name=..., court_no=...): the fields __init__
\* sets for a roster record with at most a first name, a last name and a
\* court number.
PersonRefs ==
    {[kind |-> "person", court_no |-> c, sfno |-> None, first |-> nm[1],
      middle |-> {}, last |-> nm[2], alias |-> {},
      id_triplet |-> {<<None, None, None>>}] :
        c \in {None, "c1", "c2"}, nm \in PersonNames}

\* OfficerName(name): the fields __init__ sets for an officer string with
\* at most a name, a star number and a shift code.
OfficerRefs ==
    {[kind |-> "officer", dgt5_code |-> d, star |-> st, title |-> None,
      name |-> n] :
        d \in {None, "1A23"},
        st \in {None, "s1", "s2"},
        n \in {{}, {DOE}}}

\* The list given to dedupe: the i-th object has identity i.
MentionList(f, n) ==
    [i \in 1..n |-> [fld \in DOMAIN f[i] \cup {"id", "group"} |->
                        IF fld = "id" THEN i
                        ELSE IF fld = "group" THEN {i}
                        ELSE f[i][fld]]]

\* A slot of mentions: a reference, or None once it has been merged
Slot(ref) == <<ref>>

Dead == << >>

\* Mutant of the for loop below: a merged reference is not marked dead.
RECURSIVE scan_later_keeps_merged(_, _)
scan_later_keeps_merged(st, j) ==
    IF j >= Len(st.mentions) \/ st.raised # "none" THEN st
    ELSE IF At(st.mentions, j) = Dead THEN scan_later_keeps_merged(st, j + 1)
    ELSE LET person_b == At(st.mentions, j)[1]
         IN  IF ref_eq(st.person_a, person_b)
             THEN LET m == merge(st.person_a, person_b)
                  IN  IF m.raised # "none"
                      THEN [st EXCEPT !.raised = m.raised, !.person_a = m.self]
                      ELSE scan_later_keeps_merged(
                               [st EXCEPT !.person_a = m.self,
                                          !.changed = TRUE],
                               j + 1)
             ELSE scan_later_keeps_merged(st, j + 1)

\* The for loop of dedupe from index j on: person_a, the mentions and the
\* changed flag it leaves, and the error merge raised, if any.
RECURSIVE scan_later(_, _)
scan_later(st, j) ==
    IF j >= Len(st.mentions) \/ st.raised # "none" THEN st
    ELSE IF At(st.mentions, j) = Dead THEN scan_later(st, j + 1)
    ELSE LET person_b == At(st.mentions, j)[1]
         IN  IF ref_eq(st.person_a, person_b)
             THEN LET m == merge(st.person_a, person_b)
                  IN  IF m.raised # "none"
                      THEN [st EXCEPT !.raised = m.raised, !.person_a = m.self]
                      ELSE scan_later(
                               [st EXCEPT !.person_a = m.self,
                                          !.mentions[j + 1] = Dead,
                                          !.changed = TRUE],
                               j + 1)
             ELSE scan_later(st, j + 1)

\* Mutant of the loop body of dedupe: person_a is added to persons after
\* the first scan, whether or not the scan merged anything.
dedupe_pass_single_scan(d) ==
    IF At(d.mentions, d.i) = Dead
    THEN [d EXCEPT !.pc = "dedupe", !.i = @ + 1]
    ELSE LET st == scan_later([person_a |-> At(d.mentions, d.i)[1],
                               mentions |-> d.mentions, changed |-> FALSE,
                               raised |-> "none"], d.i + 1)
             mentions == [st.mentions EXCEPT ![d.i + 1] = Slot(st.person_a)]
         IN  IF st.raised # "none"
             THEN [d EXCEPT !.pc = "raised", !.raised = st.raised,
                            !.mentions = mentions]
             ELSE [d EXCEPT !.pc = "dedupe", !.mentions = mentions,
                            !.persons = Append(@, st.person_a),
                            !.i = @ + 1]

\* One iteration of the while loop of dedupe.  person_a is the object in
\* mentions[i], so what merge assigns shows in mentions too.
dedupe_pass(d) ==
    IF At(d.mentions, d.i) = Dead
    THEN [d EXCEPT !.pc = "dedupe", !.i = @ + 1]
    ELSE LET st == scan_later([person_a |-> At(d.mentions, d.i)[1],
                               mentions |-> d.mentions, changed |-> FALSE,
                               raised |-> "none"], d.i + 1)
             mentions == [st.mentions EXCEPT ![d.i + 1] = Slot(st.person_a)]
         IN  IF st.raised # "none"
             THEN [d EXCEPT !.pc = "raised", !.raised = st.raised,
                            !.mentions = mentions]
             ELSE IF st.changed
             THEN [d EXCEPT !.pc = "dedupe", !.mentions = mentions]
             ELSE [d EXCEPT !.pc = "dedupe", !.mentions = mentions,
                            !.persons = Append(@, st.person_a),
                            !.i = @ + 1]

InitDedupe ==
    /\ \E n \in 0..MaxMentions :
           \E f \in [1..n -> PersonRefs] \cup [1..n -> OfficerRefs] :
               dd = [pc |-> "ready", input |-> MentionList(f, n),
                     mentions |-> [i \in 1..n |-> Slot(MentionList(f, n)[i])],
                     persons |-> << >>, i |-> 0, raised |-> "none",
                     iterations |-> 0]
    /\ ann = NoMerge
    /\ text = << >>
    /\ view = << >>
    /\ cleared = << >>
    /\ returned = {}
    /\ onlyDefault = TRUE
    /\ stCall = NoStCall
    /\ ncalls = 0
    /\ nlp = NoNlp
    /\ pipe = NoPipe
    /\ brRange = << >>
    /\ brCovered = {}
    /\ brCall = NoCall

\* mentions[0].merge(mentions[1]) called directly on the first two
\* references
CallMerge ==
    /\ dd.pc = "ready"
    /\ Len(dd.mentions) >= 2
    /\ \E m \in {merge(dd.mentions[1][1], dd.mentions[2][1])} :
           dd' = [dd EXCEPT !.pc = "merged", !.raised = m.raised,
                            !.mentions[1] = Slot(m.self)]
    /\ UNCHANGED <<text, view, cleared, returned, onlyDefault, stCall,
                   ncalls, nlp, pipe, ann>>
    /\ UNCHANGED brVars

\* dedupe: one iteration of the while loop
DedupePass ==
    /\ dd.pc \in {"ready", "dedupe"}
    /\ dd.i < Len(dd.mentions)
    /\ dd' = [dedupe_pass(dd) EXCEPT !.iterations = @ + 1]
    /\ UNCHANGED <<text, view, cleared, returned, onlyDefault, stCall,
                   ncalls, nlp, pipe, ann>>
    /\ UNCHANGED brVars

\* dedupe: the while loop has ended and persons is returned
DedupeReturn ==
    /\ dd.pc \in {"ready", "dedupe"}
    /\ dd.i >= Len(dd.mentions)
    /\ dd' = [dd EXCEPT !.pc = "done"]
    /\ UNCHANGED <<text, view, cleared, returned, onlyDefault, stCall,
                   ncalls, nlp, pipe, ann>>
    /\ UNCHANGED brVars

NextDedupe ==
    \/ CallMerge
    \/ DedupePass
    \/ DedupeReturn

SpecDedupe == InitDedupe /\ [][NextDedupe]_vars

----------------------------------------------------------------------------
(* Properties of dedupe and merge *)

\* The union of a set-valued field over the references given to dedupe
InputUnion(fld) == UNION {dd.input[k][fld] : k \in 1..Len(dd.input)}

\* The three references given to dedupe form a chain: in some naming
\* a, b, c of them, a equals b and b equals c.
ChainOfThree ==
    /\ Len(dd.input) = 3
    /\ \E a \in 1..3, b \in 1..3, c \in 1..3 :
           /\ a # b /\ b # c /\ a # c
           /\ ref_eq(dd.input[a], dd.input[b])
           /\ ref_eq(dd.input[b], dd.input[c])

\* C18: for three references a, b, c with a equal to b and b equal to c,
\* given in any order, dedupe returns exactly one survivor, and each
\* set-valued field of the survivor (names, aliases, identity triplets;
\* name tokens of an officer) is the union of that field over the three.
C18_ChainCollapsesToOneSurvivor ==
    (dd.pc = "done" /\ ChainOfThree) =>
        /\ Len(dd.persons) = 1
        /\ LET p == dd.persons[1]
           IN  IF p.kind = "person"
               THEN /\ p.first = InputUnion("first")
                    /\ p.middle = InputUnion("middle")
                    /\ p.last = InputUnion("last")
                    /\ p.alias = InputUnion("alias")
                    /\ p.id_triplet = InputUnion("id_triplet")
               ELSE p.name = InputUnion("name")

\* The step is an iteration of the while loop of dedupe on a live item.
LivePassTaken ==
    /\ dd.pc \in {"ready", "dedupe"}
    /\ dd'.pc = "dedupe"
    /\ dd.i < Len(dd.mentions)
    /\ At(dd.mentions, dd.i) # Dead

\* C19: each iteration on a live item a leaves every later slot as it was
\* or kills it, having merged it into a; when it has merged nothing it
\* emits a and advances, and then no later live item is equal to a; when
\* it has merged something it emits nothing and stays on a.  When dedupe
\* returns, the output is a subsequence of the input, each survivor is the
\* earliest input of the group merged into it, and the groups partition
\* the input.
C19_DedupeEmitsAfterQuietPass ==
    [][/\ LivePassTaken =>
            LET a == At(dd'.mentions, dd.i)[1]
                later == (dd.i + 1)..(Len(dd.mentions) - 1)
                killed == {j \in later : At(dd'.mentions, j) # At(dd.mentions, j)}
            IN  /\ \A j \in killed :
                       /\ At(dd'.mentions, j) = Dead
                       /\ At(dd.mentions, j) # Dead
                       /\ At(dd.mentions, j)[1].group \subseteq a.group
                /\ IF killed = {}
                   THEN /\ dd'.persons = Append(dd.persons, a)
                        /\ dd'.i = dd.i + 1
                        /\ \A j \in later :
                               At(dd'.mentions, j) # Dead
                                   => ~ref_eq(a, At(dd'.mentions, j)[1])
                   ELSE /\ dd'.persons = dd.persons
                        /\ dd'.i = dd.i
       /\ dd'.pc = "done" =>
            /\ \A k \in 1..(Len(dd'.persons) - 1) :
                   dd'.persons[k].id < dd'.persons[k + 1].id
            /\ \A k \in 1..Len(dd'.persons) :
                   /\ dd'.persons[k].id \in dd'.persons[k].group
                   /\ \A m \in dd'.persons[k].group : dd'.persons[k].id <= m
            /\ \A m \in 1..Len(dd'.input) :
                   Cardinality({k \in 1..Len(dd'.persons) :
                                   m \in dd'.persons[k].group}) = 1]_vars

\* dedupe has returned two survivors; the first absorbed a later
\* reference over the head of the second.
C19_Witness ==
    /\ dd.pc = "done"
    /\ Len(dd.persons) = 2
    /\ dd.persons[1].group = {1, 3}
    /\ dd.persons[2].group = {2}

\* C20: merge called on two references that are not equal raises
\* MergeDifferentPersonsError and leaves the receiver as it was; dedupe
\* never ends with that error.
C20_MergeRaisesOnUnequalAndKeepsReceiver ==
    /\ dd.pc = "merged" =>
           (~ref_eq(dd.input[1], dd.input[2]) =>
                /\ dd.raised = "MergeDifferentPersonsError"
                /\ dd.mentions[1] = Slot(dd.input[1]))
    /\ dd.pc \in {"dedupe", "done", "raised"} => dd.raised = "none"
    /\ dd.pc # "raised"

\* merge has raised on two persons with the same last name whose first
\* names differ.
C20_Witness ==
    /\ dd.pc = "merged"
    /\ dd.raised = "MergeDifferentPersonsError"
    /\ dd.input[1].kind = "person"
    /\ dd.input[1].first = {AL}
    /\ dd.input[2].first = {JO}
    /\ dd.input[1].last = dd.input[2].last

\* The single-valued identifiers of a reference of the given kind.
SingleValued(kind) ==
    IF kind = "person" THEN {"sfno", "court_no"}
    ELSE {"star", "title", "dgt5_code"}

\* The multi-valued fields of a reference of the given kind.
MultiValued(kind) ==
    IF kind = "person" THEN {"first", "middle", "last", "alias", "id_triplet"}
    ELSE {"name"}

\* C21: after a.merge(b) that did not raise, each multi-valued field of a
\* is the union of the values a and b had, each single-valued identifier a
\* had is kept, and each single-valued identifier a lacked and b carried
\* is on a.
C21_MergeLosesNoInformation ==
    (dd.pc = "merged" /\ dd.raised = "none") =>
        LET a == dd.input[1]
            b == dd.input[2]
            merged == dd.mentions[1][1]
        IN  /\ \A fld \in MultiValued(a.kind) :
                   merged[fld] = a[fld] \cup b[fld]
            /\ \A fld \in SingleValued(a.kind) :
                   /\ a[fld] # None => merged[fld] = a[fld]
                   /\ (a[fld] = None /\ b[fld] # None) => merged[fld] = b[fld]

----------------------------------------------------------------------------
(* person.py, officer.py: __init__ and to_dict *)

\* An officer string has at most MaxOfficerTokens whitespace-separated
\* parts.
MaxOfficerTokens == 2

\* s.strip().strip(".").upper() of the name strings given to the
\* constructors.
normalised(s) ==
    CASE s = "Al" -> AL
      [] s = "Jo" -> JO
      [] s = "Doe" -> DOE
      [] s = " doe." -> DOE
      [] s = "DOE" -> DOE

\* re.sub("[^A-Z]+", "", indicator), None when nothing is left
indicator_ptype(indicator) ==
    CASE indicator = None -> None
      [] indicator = "V1" -> "V"
      [] indicator = "(V1)" -> "V"
      [] indicator = "V7" -> "V"
      [] indicator = "RV1" -> "RV"
      [] indicator = "S1" -> "S"
      [] indicator = "X1" -> "X"
      [] indicator = "Y1" -> "Y"
      [] indicator = "#1" -> None

\* re.sub("[^0-9]+", "", indicator), None when nothing is left
indicator_pnum(indicator) ==
    CASE indicator = None -> None
      [] indicator = "V7" -> "7"
      [] indicator \in {"V1", "(V1)", "RV1", "S1", "X1", "Y1", "#1"} -> "1"

\* The keyword arguments of PersonName(...): name, m_name and
\* custom_label are left at their default.
PersonArgs ==
    [indicator : {None, "V1", "#1"}, report_id : {None, "r1"}, name : {None},
     f_name : {None, "Al"}, m_name : {None}, l_name : {None, "Doe", " doe."},
     alias : {None, "Al"}, sfno : {None}, court_no : {None, "c1"},
     custom_label : {None}]

\* parse_name(name) of a name of two words, neither a single letter:
\* first name, last name
parse_name(name) ==
    CASE name = "Al Doe" -> [first |-> {AL}, last |-> {DOE}]
      [] name = "Jo Al" -> [first |-> {JO}, last |-> {AL}]

\* PersonName.__init__: parse_name or parse_full_name fills the name
\* sets, and the arguments are kept for to_dict.
PersonName(args) ==
    [kind |-> "person",
     dict |-> args,
     custom_label |-> args.custom_label,
     court_no |-> args.court_no,
     sfno |-> args.sfno,
     id_triplet |-> {<<args.report_id, indicator_ptype(args.indicator),
                       indicator_pnum(args.indicator)>>},
     first |-> IF args.name # None THEN parse_name(args.name).first
               ELSE IF args.f_name = None THEN {}
               ELSE {normalised(args.f_name)},
     middle |-> {},
     last |-> IF args.name # None THEN parse_name(args.name).last
              ELSE IF args.l_name = None THEN {}
              ELSE {normalised(args.l_name)},
     alias |-> IF args.alias = None THEN {} ELSE {normalised(args.alias)}]

\* The parts of an officer string: a name, a title, a star number and a
\* shift code.
OfficerTokens == {"Doe", "Jo", "Sgt", "Ofc", "#222", "1A23"}

\* OfficerName.officer_titles, on the titles among the parts
officer_titles(p) ==
    CASE p = "Sgt" -> "Sergeant"
      [] p = "Ofc" -> "Officer"

\* The officer strings, as the list of parts split() gives.
OfficerStrings ==
    UNION {[1..n -> OfficerTokens] : n \in 0..MaxOfficerTokens}

\* OfficerName.__init__: the star number is searched in the whole string,
\* each part is a name token, a title or a shift code, and a later title
\* or code replaces an earlier one.
OfficerName(ofc_str) ==
    LET stars == {i \in 1..Len(ofc_str) : ofc_str[i] = "#222"}
        titles == {i \in 1..Len(ofc_str) : ofc_str[i] \in {"Sgt", "Ofc"}}
        codes == {i \in 1..Len(ofc_str) : ofc_str[i] = "1A23"}
    IN  [kind |-> "officer",
         dict |-> [ofc_str |-> ofc_str],
         dgt5_code |-> IF codes = {} THEN None ELSE "1A23",
         star |-> IF stars = {} THEN None ELSE "222",
         title |-> IF titles = {} THEN None
                   ELSE officer_titles(ofc_str[CHOOSE i \in titles :
                                                   \A j \in titles : j <= i]),
         name |-> {normalised(ofc_str[i]) :
                       i \in {j \in 1..Len(ofc_str) :
                                  ofc_str[j] \in {"Doe", "Jo"}}}]

\* to_dict: a copy of the arguments __init__ stored
to_dict(ref) == ref.dict

\* The parameters of the two constructors
Parameters(kind) ==
    IF kind = "person" THEN DOMAIN CHOOSE a \in PersonArgs : TRUE
    ELSE {"name"}

\* cls(**d): a keyword that is not a parameter of __init__ is a TypeError.
construct(kind, d) ==
    IF ~(DOMAIN d \subseteq Parameters(kind))
    THEN [raised |-> "TypeError", ref |-> None]
    ELSE IF kind = "person"
    THEN [raised |-> "none", ref |-> PersonName(d)]
    ELSE [raised |-> "none", ref |-> OfficerName(d.name)]

InitRoundTrip ==
    /\ \/ \E args \in PersonArgs :
              dd = [pc |-> "constructed", call |-> "none",
                    ref |-> PersonName(args), raised |-> "none",
                    copy |-> None]
       \/ \E ofc_str \in OfficerStrings :
              dd = [pc |-> "constructed", call |-> "none",
                    ref |-> OfficerName(ofc_str), raised |-> "none",
                    copy |-> None]
    /\ ann = NoMerge
    /\ text = << >>
    /\ view = << >>
    /\ cleared = << >>
    /\ returned = {}
    /\ onlyDefault = TRUE
    /\ stCall = NoStCall
    /\ ncalls = 0
    /\ nlp = NoNlp
    /\ pipe = NoPipe
    /\ brRange = << >>
    /\ brCovered = {}
    /\ brCall = NoCall

\* type(r)(**r.to_dict())
RebuildFromKeywords ==
    /\ dd.pc = "constructed"
    /\ \E c \in {construct(dd.ref.kind, to_dict(dd.ref))} :
           dd' = [dd EXCEPT !.pc = "rebuilt", !.call = "keywords",
                            !.raised = c.raised, !.copy = c.ref]
    /\ UNCHANGED <<text, view, cleared, returned, onlyDefault, stCall,
                   ncalls, nlp, pipe, ann>>
    /\ UNCHANGED brVars

\* OfficerName(r.to_dict()["ofc_str"]): the stored string given as the
\* positional argument
RebuildFromString ==
    /\ dd.pc = "constructed"
    /\ dd.ref.kind = "officer"
    /\ dd' = [dd EXCEPT !.pc = "rebuilt", !.call = "positional",
                        !.copy = OfficerName(to_dict(dd.ref).ofc_str)]
    /\ UNCHANGED <<text, view, cleared, returned, onlyDefault, stCall,
                   ncalls, nlp, pipe, ann>>
    /\ UNCHANGED brVars

NextRoundTrip ==
    \/ RebuildFromKeywords
    \/ RebuildFromString

SpecRoundTrip == InitRoundTrip /\ [][NextRoundTrip]_vars

\* C22: the reference constructed from r.to_dict() exists and is equal to
\* r, in both directions of the comparison.
C22_RoundTripIsEqual ==
    dd.pc = "rebuilt" =>
        /\ dd.raised = "none"
        /\ ref_eq(dd.copy, dd.ref)
        /\ ref_eq(dd.ref, dd.copy)

\* C23: two officers that both carry a shift code, the codes differing,
\* are unequal; any other two officers are equal iff both carry the same
\* star number or they share a name token.
C23_OfficerEqualityRule ==
    (dd.pc = "merged" /\ dd.input[1].kind = "officer") =>
        LET a == dd.input[1]
            b == dd.input[2]
        IN  (dd.raised = "none") <=>
                IF /\ a.dgt5_code # None
                   /\ b.dgt5_code # None
                   /\ a.dgt5_code # b.dgt5_code
                THEN FALSE
                ELSE \/ a.star # None /\ a.star = b.star
                     \/ a.name \cap b.name # {}

----------------------------------------------------------------------------
(* person.py, officer.py: dedupe (code names) *)

\* Individual.dedupe as a whole: the while loop run to its end
RECURSIVE dedupe_loop(_)
dedupe_loop(d) ==
    IF d.i >= Len(d.mentions) \/ d.raised # "none" THEN d
    ELSE dedupe_loop(dedupe_pass(d))

dedupe(individuals) ==
    dedupe_loop([pc |-> "ready", input |-> individuals,
                 mentions |-> [i \in 1..Len(individuals) |->
                                  Slot(individuals[i])],
                 persons |-> << >>, i |-> 0, raised |-> "none"]).persons

\* locale.indicators of the sample locales: a defaultdict whose missing
\* keys read as "Person"
REF_NAMES(ptype) ==
    CASE ptype = "V" -> "Victim"
      [] ptype = "RV" -> "Reporting Victim"
      [] ptype = "S" -> "Suspect"
      [] OTHER -> "Person"

\* The characters of the strings that make a code name part
chars(str) ==
    CASE str = "V" -> <<"V">>
      [] str = "RV" -> <<"R", "V">>
      [] str = "S" -> <<"S">>
      [] str = "X" -> <<"X">>
      [] str = "Y" -> <<"Y">>
      [] str = "PERSON_" -> <<"P", "E", "R", "S", "O", "N", "_">>

\* str(n) of a counter
digits(n) ==
    LET d(k) == CASE k = 0 -> "0" [] k = 1 -> "1" [] k = 2 -> "2"
                  [] k = 3 -> "3" [] k = 4 -> "4" [] k = 5 -> "5"
                  [] k = 6 -> "6" [] k = 7 -> "7" [] k = 8 -> "8"
                  [] k = 9 -> "9"
    IN  IF n < 10 THEN <<d(n)>> ELSE <<d(n \div 10), d(n % 10)>>

\* ord(c) of the characters of a code name part
ord(c) ==
    CASE c \in {"0", "1", "2", "3", "4", "5", "6", "7", "8", "9"} ->
             48 + (CHOOSE k \in 0..9 : digits(k) = <<c>>)
      [] c = "E" -> 69
      [] c = "N" -> 78
      [] c = "O" -> 79
      [] c = "P" -> 80
      [] c = "R" -> 82
      [] c = "S" -> 83
      [] c = "V" -> 86
      [] c = "X" -> 88
      [] c = "Y" -> 89
      [] c = "_" -> 95

\* a < b for two strings
RECURSIVE str_lt(_, _)
str_lt(a, b) ==
    IF b = << >> THEN FALSE
    ELSE IF a = << >> THEN TRUE
    ELSE IF ord(a[1]) # ord(b[1]) THEN ord(a[1]) < ord(b[1])
    ELSE str_lt(Tail(a), Tail(b))

\* sorted(parts) of a list of distinct strings
RECURSIVE sorted(_)
sorted(parts) ==
    IF parts = {} THEN << >>
    ELSE LET least == CHOOSE a \in parts :
                          \A b \in parts \ {a} : str_lt(a, b)
         IN  <<least>> \o sorted(parts \ {least})

\* " / ".join(parts)
RECURSIVE join(_)
join(parts) ==
    IF parts = << >> THEN << >>
    ELSE IF Len(parts) = 1 THEN parts[1]
    ELSE parts[1] \o <<" ", "/", " ">> \o join(Tail(parts))

\* The orders in which a set can be iterated
Orders(S) ==
    {f \in [1..Cardinality(S) -> S] :
        \A i, j \in 1..Cardinality(S) : i # j => f[i] # f[j]}

\* The loop of PersonName.dedupe over ptype_set, in the given iteration
\* order, from position k on.
RECURSIVE count_types(_, _, _)
count_types(order, k, st) ==
    IF k > Len(order) THEN st
    ELSE IF order[k] = None THEN count_types(order, k + 1, st)
    ELSE LET cname == REF_NAMES(order[k])
             n == st.type_counts[cname] + 1
         IN  count_types(order, k + 1,
                 [type_counts |-> [st.type_counts EXCEPT ![cname] = n],
                  code_name_parts |->
                      st.code_name_parts \cup {chars(order[k]) \o digits(n)},
                  full_name_parts |->
                      st.full_name_parts \cup {<<cname, n>>}])

\* The display categories of the sample locales
Categories == {"Victim", "Reporting Victim", "Suspect", "Person"}

is_chargeable(p) ==
    \/ p.sfno # None
    \/ \E t \in p.id_triplet : t[2] \in {"B", "C", "D", "S"}

\* Mutant of the loop body below: the counter of a category is not
\* advanced.
label_person_same_counter(p, type_counts, count, order) ==
    LET cls == IF is_chargeable(p) THEN "masked-suspect" ELSE "masked-person"
    IN  IF p.custom_label # None
        THEN [type_counts |-> type_counts,
              label |-> [id |-> p.id, cls |-> cls, color |-> count,
                         code_name |-> p.custom_label,
                         full_code_name |-> p.custom_label]]
        ELSE LET st == count_types(order, 1,
                           [type_counts |-> type_counts,
                            code_name_parts |-> {},
                            full_name_parts |-> {}])
                 cname == REF_NAMES("")
                 n == st.type_counts[cname] + 1
                 fb == IF st.code_name_parts # {} THEN st
                       ELSE [type_counts |->
                                 [st.type_counts EXCEPT ![cname] = n],
                             code_name_parts |-> {chars("PERSON_") \o digits(n)},
                             full_name_parts |-> {<<cname, n>>}]
             IN  [type_counts |-> type_counts,
                  label |-> [id |-> p.id, cls |-> cls, color |-> count,
                             code_name |->
                                 <<"(">> \o join(sorted(fb.code_name_parts))
                                     \o <<")">>,
                             full_code_name |-> fb.full_name_parts]]

\* One iteration of the for loop of PersonName.dedupe on survivor p: the
\* counters it leaves and what it assigns to p.  color is the index into
\* WEB_COLORS before the modulo, full_code_name the parts before they are
\* sorted and joined.
label_person(p, type_counts, count, order) ==
    LET cls == IF is_chargeable(p) THEN "masked-suspect" ELSE "masked-person"
    IN  IF p.custom_label # None
        THEN [type_counts |-> type_counts,
              label |-> [id |-> p.id, cls |-> cls, color |-> count,
                         code_name |-> p.custom_label,
                         full_code_name |-> p.custom_label]]
        ELSE LET st == count_types(order, 1,
                           [type_counts |-> type_counts,
                            code_name_parts |-> {},
                            full_name_parts |-> {}])
                 cname == REF_NAMES("")
                 n == st.type_counts[cname] + 1
                 fb == IF st.code_name_parts # {} THEN st
                       ELSE [type_counts |->
                                 [st.type_counts EXCEPT ![cname] = n],
                             code_name_parts |-> {chars("PERSON_") \o digits(n)},
                             full_name_parts |-> {<<cname, n>>}]
             IN  [type_counts |-> fb.type_counts,
                  label |-> [id |-> p.id, cls |-> cls, color |-> count,
                             code_name |->
                                 <<"(">> \o join(sorted(fb.code_name_parts))
                                     \o <<")">>,
                             full_code_name |-> fb.full_name_parts]]

\* The titles OfficerName.dedupe counts
Titles == {"Officer", "Sergeant"}

\* Mutant of the loop body below: the counter of a title is not advanced.
label_officer_same_counter(p, type_counts) ==
    LET title == IF p.star # None /\ p.title = None THEN "Officer"
                 ELSE p.title
    IN  IF title = None
        THEN [type_counts |-> type_counts,
              label |-> [id |-> p.id, cls |-> "masked-officer",
                         code_name |-> IF p.dgt5_code # None
                                       THEN <<"[officer pair]">>
                                       ELSE <<"an officer">>]]
        ELSE LET n == type_counts[title] + 1
             IN  [type_counts |-> type_counts,
                  label |-> [id |-> p.id, cls |-> "masked-officer",
                             code_name |-> <<title, " #">> \o digits(n)]]

\* One iteration of the for loop of OfficerName.dedupe on survivor p
label_officer(p, type_counts) ==
    LET title == IF p.star # None /\ p.title = None THEN "Officer"
                 ELSE p.title
    IN  IF title = None
        THEN [type_counts |-> type_counts,
              label |-> [id |-> p.id, cls |-> "masked-officer",
                         code_name |-> IF p.dgt5_code # None
                                       THEN <<"[officer pair]">>
                                       ELSE <<"an officer">>]]
        ELSE LET n == type_counts[title] + 1
             IN  [type_counts |-> [type_counts EXCEPT ![title] = n],
                  label |-> [id |-> p.id, cls |-> "masked-officer",
                             code_name |-> <<title, " #">> \o digits(n)]]

\* The civilians given to PersonName.dedupe
LabelPersonArgs ==
    [indicator : {None, "V1", "V7", "RV1", "X1", "Y1"}, report_id : {"r1"},
     name : {None}, f_name : {None}, m_name : {None}, l_name : {"Doe", "Jo"},
     alias : {None}, sfno : {None}, court_no : {None},
     custom_label : {None}]
      \cup
    [indicator : {None, "S1"}, report_id : {"r1"},
     name : {None}, f_name : {None}, m_name : {None}, l_name : {"Jo"},
     alias : {None}, sfno : {None}, court_no : {None},
     custom_label : {"Kid"}]

\* The officers given to OfficerName.dedupe
LabelOfficerStrings ==
    {<< >>, <<"1A23">>, <<"Doe">>, <<"#222">>, <<"Sgt", "Doe">>,
     <<"Sgt", "Jo">>, <<"Jo", "#222">>, <<"Ofc", "Doe">>}

InitLabel ==
    /\ \E n \in 0..MaxMentions :
           \/ \E f \in [1..n -> LabelPersonArgs] :
                  dd = [pc |-> "called", kind |-> "person",
                        input |-> MentionList([i \in 1..n |->
                                                  PersonName(f[i])], n),
                        persons |-> << >>, labels |-> << >>,
                        type_counts |-> [c \in Categories |-> 0],
                        count |-> 0]
           \/ \E f \in [1..n -> LabelOfficerStrings] :
                  dd = [pc |-> "called", kind |-> "officer",
                        input |-> MentionList([i \in 1..n |->
                                                  OfficerName(f[i])], n),
                        persons |-> << >>, labels |-> << >>,
                        type_counts |-> [c \in Titles |-> 0],
                        count |-> 0]
    /\ ann = NoMerge
    /\ text = << >>
    /\ view = << >>
    /\ cleared = << >>
    /\ returned = {}
    /\ onlyDefault = TRUE
    /\ stCall = NoStCall
    /\ ncalls = 0
    /\ nlp = NoNlp
    /\ pipe = NoPipe
    /\ brRange = << >>
    /\ brCovered = {}
    /\ brCall = NoCall

\* persons = super().dedupe(persons, locale)
SuperDedupe ==
    /\ dd.pc = "called"
    /\ dd' = [dd EXCEPT !.pc = "labelling", !.persons = dedupe(dd.input)]
    /\ UNCHANGED <<text, view, cleared, returned, onlyDefault, stCall,
                   ncalls, nlp, pipe, ann>>
    /\ UNCHANGED brVars

\* PersonName.dedupe: one iteration of "for p in persons"; the set of
\* types is iterated in any order.
LabelPerson ==
    /\ dd.pc = "labelling"
    /\ dd.kind = "person"
    /\ Len(dd.labels) < Len(dd.persons)
    /\ LET p == dd.persons[Len(dd.labels) + 1]
       IN  \E order \in Orders({t[2] : t \in p.id_triplet}) :
               \E r \in {label_person(p, dd.type_counts, dd.count, order)} :
                   dd' = [dd EXCEPT !.labels = Append(@, r.label),
                                    !.type_counts = r.type_counts,
                                    !.count = @ + 1]
    /\ UNCHANGED <<text, view, cleared, returned, onlyDefault, stCall,
                   ncalls, nlp, pipe, ann>>
    /\ UNCHANGED brVars

\* OfficerName.dedupe: one iteration of "for p in persons"
LabelOfficer ==
    /\ dd.pc = "labelling"
    /\ dd.kind = "officer"
    /\ Len(dd.labels) < Len(dd.persons)
    /\ \E r \in {label_officer(dd.persons[Len(dd.labels) + 1],
                               dd.type_counts)} :
           dd' = [dd EXCEPT !.labels = Append(@, r.label),
                            !.type_counts = r.type_counts]
    /\ UNCHANGED <<text, view, cleared, returned, onlyDefault, stCall,
                   ncalls, nlp, pipe, ann>>
    /\ UNCHANGED brVars

\* return persons
LabelReturn ==
    /\ dd.pc = "labelling"
    /\ Len(dd.labels) = Len(dd.persons)
    /\ dd' = [dd EXCEPT !.pc = "done"]
    /\ UNCHANGED <<text, view, cleared, returned, onlyDefault, stCall,
                   ncalls, nlp, pipe, ann>>
    /\ UNCHANGED brVars

NextLabel ==
    \/ SuperDedupe
    \/ LabelPerson
    \/ LabelOfficer
    \/ LabelReturn

SpecLabel == InitLabel /\ [][NextLabel]_vars

\* The non-null indicator types of a survivor
TypesOf(p) == {t[2] : t \in p.id_triplet} \ {None}

\* The number of counter values survivor p takes from category c
Allocated(p, c) ==
    IF p.custom_label # None THEN 0
    ELSE IF TypesOf(p) # {}
    THEN Cardinality({t \in TypesOf(p) : REF_NAMES(t) = c})
    ELSE IF c = REF_NAMES("") THEN 1 ELSE 0

RECURSIVE AllocatedBefore(_, _)
\* The number of counter values of category c taken by the survivors before
\* the k-th
AllocatedBefore(k, c) ==
    IF k <= 1 THEN 0
    ELSE AllocatedBefore(k - 1, c) + Allocated(dd.persons[k - 1], c)

\* The code name of the k-th survivor is the one its types give under some
\* numbering that hands each category's next counter values to the types
\* of that category.
TypedLabel(k) ==
    LET p == dd.persons[k]
    IN  \E num \in [TypesOf(p) -> 1..(MaxMentions + 1) * 2] :
            /\ \A c \in Categories :
                   {num[t] : t \in {u \in TypesOf(p) : REF_NAMES(u) = c}}
                       = (AllocatedBefore(k, c) + 1)
                             ..(AllocatedBefore(k, c) + Allocated(p, c))
            /\ dd.labels[k].code_name =
                   <<"(">>
                       \o join(sorted({chars(t) \o digits(num[t]) :
                                           t \in TypesOf(p)}))
                       \o <<")">>

\* The label of the k-th survivor follows the rule for a custom label and
\* for indicator types.
LabelledByRule(k) ==
    LET p == dd.persons[k]
    IN  /\ p.custom_label # None =>
               dd.labels[k].code_name = p.custom_label
        /\ (p.custom_label = None /\ TypesOf(p) # {}) => TypedLabel(k)

\* C24 as stated: a survivor with a custom label has that label, a survivor
\* with indicator types has the sorted, parenthesized type+counter parts,
\* and a survivor with neither has the label PERSON_n.
C24_FallbackLabelIsBare ==
    (dd.pc \in {"labelling", "done"} /\ dd.kind = "person") =>
        \A k \in 1..Len(dd.labels) :
            /\ LabelledByRule(k)
            /\ (dd.persons[k].custom_label = None
                    /\ TypesOf(dd.persons[k]) = {}) =>
                   \E n \in 1..(MaxMentions + 1) :
                       dd.labels[k].code_name = chars("PERSON_") \o digits(n)

\* C24 (amended): as above, and a survivor with no custom label and no
\* indicator type has the label (PERSON_n), in parentheses, n being the
\* next counter value of the default category.
C24_LabelAssignment ==
    (dd.pc \in {"labelling", "done"} /\ dd.kind = "person") =>
        \A k \in 1..Len(dd.labels) :
            /\ LabelledByRule(k)
            /\ (dd.persons[k].custom_label = None
                    /\ TypesOf(dd.persons[k]) = {}) =>
                   dd.labels[k].code_name =
                       <<"(">> \o chars("PERSON_")
                           \o digits(AllocatedBefore(k, REF_NAMES("")) + 1)
                           \o <<")">>

\* PersonName.dedupe has returned a survivor merged from two indicator
\* types followed by a survivor with no indicator type.
C24_Witness ==
    /\ dd.pc = "done"
    /\ dd.kind = "person"
    /\ Len(dd.persons) = 2
    /\ TypesOf(dd.persons[1]) = {"V", "RV"}
    /\ TypesOf(dd.persons[2]) = {}
    /\ dd.persons[2].custom_label = None

----------------------------------------------------------------------------
(* locale/locale.py: filter_names *)

\* At most MaxRecords civilian records are given to filter_names.
MaxRecords == 2

\* A record's name: None, or a string
NoName == [isNone |-> TRUE, str |-> << >>]

Name(str) == [isNone |-> FALSE, str |-> str]

\* The names of the records given to filter_names
RecordNames ==
    {NoName, Name(<< >>), Name(<<" ">>), Name(<<" ", "N", "/", "A", " ">>),
     Name(<<"n", "a">>), Name(<<"J", "o">>), Name(<<" ", "D", "o", "e", " ">>),
     Name(<<"J", "o", " ", "D", "o", "e">>)}

\* The excluded names a locale is configured with: regular expressions
\* that are plain words
ExcludedNameSets == {{}, {<<"d", "o", "e">>}, {<<"D", "O", "E">>, <<"j", "o">>}}

\* str.strip()
RECURSIVE strip(_)
strip(str) ==
    IF str # << >> /\ str[1] = " " THEN strip(Tail(str))
    ELSE IF str # << >> /\ str[Len(str)] = " "
    THEN strip(SubSeq(str, 1, Len(str) - 1))
    ELSE str

\* str.lower()
lower(str) ==
    [i \in 1..Len(str) |->
        CASE str[i] = "A" -> "a"
          [] str[i] = "D" -> "d"
          [] str[i] = "E" -> "e"
          [] str[i] = "J" -> "j"
          [] str[i] = "N" -> "n"
          [] str[i] = "O" -> "o"
          [] OTHER -> str[i]]

\* _compile_excluded_name_re: the alternatives of "|".join(excluded_names);
\* the join of no names is the empty pattern.
compile_excluded_name_re(excluded_names) ==
    IF excluded_names = {} THEN {<< >>} ELSE excluded_names

\* self._excluded_name_re.match(name), with re.IGNORECASE: an alternative
\* matches at the start of the name.
excluded_name_match(pattern, name) ==
    \E alt \in pattern :
        /\ Len(alt) <= Len(name)
        /\ lower(SubSeq(name, 1, Len(alt))) = lower(alt)

\* The names filter_names drops after trimming and lower-casing
Placeholders ==
    {<< >>, <<"n", "/", "a">>, <<"n", "a">>, <<"n", "o", "n", "e">>,
     <<"m", "i", "s", "s", "i", "n", "g">>}

InitFilter ==
    /\ \E excluded_names \in ExcludedNameSets :
           \E n \in 0..MaxRecords : \E persons \in [1..n -> RecordNames] :
               dd = [pc |-> "filter",
                     excluded_names |-> excluded_names,
                     excluded_name_re |->
                         compile_excluded_name_re(excluded_names),
                     input |-> persons, persons |-> persons, k |-> 1,
                     filtered_persons |-> << >>]
    /\ ann = NoMerge
    /\ text = << >>
    /\ view = << >>
    /\ cleared = << >>
    /\ returned = {}
    /\ onlyDefault = TRUE
    /\ stCall = NoStCall
    /\ ncalls = 0
    /\ nlp = NoNlp
    /\ pipe = NoPipe
    /\ brRange = << >>
    /\ brCovered = {}
    /\ brCall = NoCall

\* filter_names: one iteration of "for person in persons"
FilterRecord ==
    /\ dd.pc = "filter"
    /\ dd.k <= Len(dd.persons)
    /\ LET person == dd.persons[dd.k]
           name == lower(strip(person.str))
       IN  IF person.isNone \/ person.str = << >>
           THEN dd' = [dd EXCEPT !.k = @ + 1]
           ELSE IF \/ name \in Placeholders
                   \/ excluded_name_match(dd.excluded_name_re, name)
           THEN dd' = [dd EXCEPT !.k = @ + 1, !.persons[dd.k] = Name(name)]
           ELSE dd' = [dd EXCEPT !.k = @ + 1, !.persons[dd.k] = Name(name),
                                 !.filtered_persons = Append(@, Name(name))]
    /\ UNCHANGED <<text, view, cleared, returned, onlyDefault, stCall,
                   ncalls, nlp, pipe, ann>>
    /\ UNCHANGED brVars

\* return filtered_persons
FilterReturn ==
    /\ dd.pc = "filter"
    /\ dd.k > Len(dd.persons)
    /\ dd' = [dd EXCEPT !.pc = "done"]
    /\ UNCHANGED <<text, view, cleared, returned, onlyDefault, stCall,
                   ncalls, nlp, pipe, ann>>
    /\ UNCHANGED brVars

NextFilter ==
    \/ FilterRecord
    \/ FilterReturn

SpecFilter == InitFilter /\ [][NextFilter]_vars

\* The record is one the rule keeps: it has a name that, trimmed and
\* lower-cased, is neither empty nor a placeholder nor matched at its start
\* by one of the excluded names.
Eligible(person, excluded_names) ==
    /\ ~person.isNone
    /\ lower(strip(person.str)) \notin Placeholders
    /\ \A alt \in excluded_names :
           ~excluded_name_match({alt}, lower(strip(person.str)))

RECURSIVE EligibleNames(_, _)
\* The trimmed lower-cased names of the eligible records, in input order
EligibleNames(persons, excluded_names) ==
    IF persons = << >> THEN << >>
    ELSE (IF Eligible(persons[1], excluded_names)
          THEN <<Name(lower(strip(persons[1].str)))>> ELSE << >>)
             \o EligibleNames(Tail(persons), excluded_names)

\* C25: filter_names returns, in input order, exactly the eligible
\* records; with no excluded names it drops no record for being excluded.
C25_FilterKeepsEligibleRecords ==
    dd.pc = "done" =>
        dd.filtered_persons = EligibleNames(dd.input, dd.excluded_names)

----------------------------------------------------------------------------
(* text_processing.py: get_persons_from_narrative *)

\* A narrative is made of at most MaxSegments segments.
MaxSegments == 5

\* The segments of a narrative: the indicator "(V1)", a space, a comma, and
\* three spans the NLP model labels PERSON.
Segments == {"(V1)", " ", ",", "Al Doe", "Jo Al", "UNKNOWN"}

\* doc.ents with label PERSON
PersonEntities == {"Al Doe", "Jo Al", "UNKNOWN"}

\* len(segment)
SegLen(seg) ==
    CASE seg = "(V1)" -> 4
      [] seg \in {" ", ","} -> 1
      [] seg = "Al Doe" -> 6
      [] seg = "Jo Al" -> 5
      [] seg = "UNKNOWN" -> 7

RECURSIVE start_char(_, _)
\* The offset in the text at which the k-th segment begins
start_char(narrative, k) ==
    IF k <= 1 THEN 0
    ELSE start_char(narrative, k - 1) + SegLen(narrative[k - 1])

end_char(narrative, k) == start_char(narrative, k) + SegLen(narrative[k])

\* The segments that begin and end with a character that \W matches
NonWord == {"(V1)", " ", ","}

\* The matches of indicator_regex for person type V: a parenthesized
\* indicator at the start of the text or after a non-word character, and
\* followed by a non-word character.
indicators(narrative) ==
    {k \in 1..Len(narrative) :
        /\ narrative[k] = "(V1)"
        /\ k = 1 \/ narrative[k - 1] \in NonWord
        /\ k < Len(narrative)
        /\ narrative[k + 1] \in NonWord}

\* The arguments of the PersonName that _add_person_mention appends for a
\* parenthesized indicator
mention(indicator, report_id, name) ==
    [indicator |-> indicator, report_id |-> report_id, name |-> name,
     f_name |-> None, m_name |-> None, l_name |-> None, alias |-> None,
     sfno |-> None, court_no |-> None, custom_label |-> None]

\* The body of "for indicator in indicators" for the indicator at segment
\* k: the mention it adds.
infer_mention(narrative, k, indicator_position, report_id) ==
    LET ents == {e \in 1..Len(narrative) : narrative[e] \in PersonEntities}
        found == IF indicator_position = "prefix"
                 THEN {e \in ents : start_char(narrative, e)
                                        >= end_char(narrative, k)}
                 ELSE {e \in ents : end_char(narrative, e)
                                        <= start_char(narrative, k)}
    IN  IF found = {} THEN mention(narrative[k], report_id, None)
        ELSE LET next_person ==
                     IF indicator_position = "prefix"
                     THEN CHOOSE e \in found : \A o \in found : e <= o
                     ELSE CHOOSE e \in found : \A o \in found : e >= o
                 tween ==
                     IF indicator_position = "prefix"
                     THEN SubSeq(narrative, k + 1, next_person - 1)
                     ELSE SubSeq(narrative, next_person + 1, k - 1)
             IN  IF \E i \in 1..Len(tween) : tween[i] # " "
                 THEN mention(narrative[k], report_id, None)
                 ELSE IF narrative[next_person] = "UNKNOWN"
                 THEN mention(narrative[k], report_id, None)
                 ELSE mention(narrative[k], report_id, narrative[next_person])

RECURSIVE infer_mentions(_, _, _, _)
\* The mentions one pass over the indicators adds, in order of position
infer_mentions(narrative, from, indicator_position, report_id) ==
    IF from > Len(narrative) THEN << >>
    ELSE (IF from \in indicators(narrative)
          THEN <<infer_mention(narrative, from, indicator_position,
                               report_id)>>
          ELSE << >>)
             \o infer_mentions(narrative, from + 1, indicator_position,
                               report_id)

InitInfer ==
    /\ \E n \in 0..MaxSegments : \E narrative \in [1..n -> Segments] :
           dd = [pc |-> "prefix", narrative |-> narrative,
                 mentions |-> << >>, persons |-> << >>]
    /\ ann = NoMerge
    /\ text = << >>
    /\ view = << >>
    /\ cleared = << >>
    /\ returned = {}
    /\ onlyDefault = TRUE
    /\ stCall = NoStCall
    /\ ncalls = 0
    /\ nlp = NoNlp
    /\ pipe = NoPipe
    /\ brRange = << >>
    /\ brCovered = {}
    /\ brCall = NoCall

\* get_persons_from_narrative: the pass for INDICATOR_POS_PREFIX
InferPrefix ==
    /\ dd.pc = "prefix"
    /\ dd' = [dd EXCEPT !.pc = "suffix",
                        !.mentions = @ \o infer_mentions(dd.narrative, 1,
                                                        "prefix", "r1")]
    /\ UNCHANGED <<text, view, cleared, returned, onlyDefault, stCall,
                   ncalls, nlp, pipe, ann>>
    /\ UNCHANGED brVars

\* get_persons_from_narrative: the pass for INDICATOR_POS_SUFFIX
InferSuffix ==
    /\ dd.pc = "suffix"
    /\ dd' = [dd EXCEPT !.pc = "inferred",
                        !.mentions = @ \o infer_mentions(dd.narrative, 1,
                                                        "suffix", "r1")]
    /\ UNCHANGED <<text, view, cleared, returned, onlyDefault, stCall,
                   ncalls, nlp, pipe, ann>>
    /\ UNCHANGED brVars

\* PersonName.dedupe of the inferred mentions
InferDedupe ==
    /\ dd.pc = "inferred"
    /\ dd' = [dd EXCEPT !.pc = "done",
                        !.persons =
                            dedupe(MentionList(
                                [i \in 1..Len(dd.mentions) |->
                                    PersonName(dd.mentions[i])],
                                Len(dd.mentions)))]
    /\ UNCHANGED <<text, view, cleared, returned, onlyDefault, stCall,
                   ncalls, nlp, pipe, ann>>
    /\ UNCHANGED brVars

NextInfer ==
    \/ InferPrefix
    \/ InferSuffix
    \/ InferDedupe

SpecInfer == InitInfer /\ [][NextInfer]_vars

\* The person entity next to the indicator at segment k on the given side,
\* if the text between them is whitespace and the entity is not UNKNOWN.
Qualifying(narrative, k, side) ==
    {e \in 1..Len(narrative) :
        /\ narrative[e] \in PersonEntities \ {"UNKNOWN"}
        /\ IF side = "after" THEN e > k ELSE e < k
        /\ \A i \in 1..Len(narrative) :
               ((k < i /\ i < e) \/ (e < i /\ i < k)) => narrative[i] = " "}

\* C26: every mention carries the triplet of its indicator, and a name
\* only if a qualifying entity is next to the indicator; once the mentions
\* of a narrative with one indicator occurrence are deduplicated there is
\* exactly one reference, and it is named iff an entity qualified.
C26_OneIndicatorOneReference ==
    /\ dd.pc \in {"inferred", "done"} =>
           \A i \in 1..Len(dd.mentions) :
               /\ dd.mentions[i].indicator = "(V1)"
               /\ dd.mentions[i].name # None =>
                      \E k \in indicators(dd.narrative) :
                          \E e \in Qualifying(dd.narrative, k, "after")
                                      \cup Qualifying(dd.narrative, k, "before") :
                              dd.narrative[e] = dd.mentions[i].name
    /\ (dd.pc = "done" /\ Cardinality(indicators(dd.narrative)) = 1) =>
           LET k == CHOOSE k \in indicators(dd.narrative) : TRUE
           IN  /\ Len(dd.persons) = 1
               /\ dd.persons[1].id_triplet = {<<"r1", "V", "1">>}
               /\ (dd.persons[1].last # {}) <=>
                      (Qualifying(dd.narrative, k, "after")
                           \cup Qualifying(dd.narrative, k, "before") # {})

\* The slots of mentions that are dead
DeadSlots(mentions) == {j \in 1..Len(mentions) : mentions[j] = Dead}

\* C27: every iteration of the while loop of dedupe either advances the
\* index, or leaves it and marks at least one more slot dead, and the
\* number of iterations never exceeds twice the length of the list.
C27_EveryIterationAdvancesOrKills ==
    [][(dd.pc \in {"ready", "dedupe"} /\ dd'.pc = "dedupe") =>
           /\ dd'.iterations = dd.iterations + 1
           /\ \/ dd'.i = dd.i + 1
              \/ /\ dd'.i = dd.i
                 /\ DeadSlots(dd.mentions) \subseteq DeadSlots(dd'.mentions)
                 /\ DeadSlots(dd.mentions) # DeadSlots(dd'.mentions)
           /\ dd'.iterations <= 2 * Len(dd'.input)]_vars

\* dedupe has returned after the most iterations a list of three allows:
\* three that advance and two that each kill one slot.
C27_Witness ==
    /\ dd.pc = "done"
    /\ Len(dd.input) = 3
    /\ dd.iterations = 5

\* C28: when dedupe has returned, no two distinct survivors are equal.
C28_NoTwoSurvivorsEqual ==
    dd.pc = "done" =>
        \A k \in 1..Len(dd.persons), m \in 1..Len(dd.persons) :
            k # m => ~ref_eq(dd.persons[k], dd.persons[m])


----------------------------------------------------------------------------
(* Failing redact calls *)

\* C29: a redact call that raises (OverlapError, or ValueError for an
\* extent that is not positive) leaves the text view, its length and the
\* redacted-interval set exactly as they were before the call.
C29_FailingRedactIsAtomic ==
    [][(stCall'.op = "redact" /\ stCall'.raised # "none")
         => /\ view' = view
            /\ Len(view') = Len(view)
            /\ cleared' = cleared]_vars


----------------------------------------------------------------------------
(* Distinct code names *)

\* The title under which an officer with a title or a star number is
\* counted: the title, or "Officer" for a star number without title
CountedTitle(p) == IF p.title # None THEN p.title ELSE "Officer"

\* The k-th survivor is an officer with a title or a star number.
Numbered(k) == dd.persons[k].title # None \/ dd.persons[k].star # None

\* The rank of the k-th survivor among the numbered survivors of its title,
\* in output order
RankInTitle(k) ==
    Cardinality({j \in 1..k :
                    /\ Numbered(j)
                    /\ CountedTitle(dd.persons[j])
                           = CountedTitle(dd.persons[k])})

\* C30: after PersonName.dedupe any two distinct survivors without custom
\* label have different code names; after OfficerName.dedupe each survivor
\* with a title or a star number has the code name '<Title> #n', n being its
\* rank 1,2,3,... among the survivors of that title in output order, so that
\* any two of them have different code names.
C30_DistinctCodeNames ==
    dd.pc = "done" =>
        /\ dd.kind = "person" =>
               \A j, k \in 1..Len(dd.persons) :
                   (/\ j # k
                    /\ dd.persons[j].custom_label = None
                    /\ dd.persons[k].custom_label = None)
                       => dd.labels[j].code_name # dd.labels[k].code_name
        /\ dd.kind = "officer" =>
               /\ \A k \in 1..Len(dd.persons) :
                      Numbered(k) =>
                          dd.labels[k].code_name =
                              <<CountedTitle(dd.persons[k]), " #">>
                                  \o digits(RankInTitle(k))
               /\ \A j, k \in 1..Len(dd.persons) :
                      (j # k /\ Numbered(j) /\ Numbered(k))
                          => dd.labels[j].code_name # dd.labels[k].code_name

\* OfficerName.dedupe has returned three numbered survivors: an officer
\* with a star number and no title, one with the title Officer, and a
\* sergeant.
C30_Witness ==
    /\ dd.pc = "done"
    /\ dd.kind = "officer"
    /\ Len(dd.persons) = 3
    /\ \A k \in 1..3 : Numbered(k)
    /\ \E j, k \in 1..3 :
           /\ j # k
           /\ dd.persons[j].title = None
           /\ dd.persons[k].title = "Officer"
    /\ \E k \in 1..3 : dd.persons[k].title = "Sergeant"

====
